---- MODULE Spec2Model ----
(***************************************************************************)
(* A model of the spydify catalog crawler (src/spot_load.py and the older  *)
(* draft src/spotifyload.py): the rate limiter and its persisted request   *)
(* log, the fetchers with their retry policy, the paginated collector, the *)
(* store's dump operations and the crawl loop; and of the two enrichment   *)
(* scripts, src/musicbrainz_load.py and src/lastfm.py.                     *)
(*                                                                         *)
(* Time is an integer number of milliseconds: base_wait = 0.1 s is 100,    *)
(* the 30-second window is 30000.                                          *)
(***************************************************************************)
EXTENDS Integers, Sequences, FiniteSets, Bags, TLC

VARIABLES
    now,                 \* time.time(), in ms
    proc,                \* "running" | "stopped": is the crawler process alive
    pc,                  \* position of the driver of the current specification
    halfmin_timestamps,  \* spot_load.py:30
    hourly_timestamps,   \* spot_load.py:31
    daily_timestamps,    \* spot_load.py:32
    response_times,      \* spot_load.py:33, deque(maxlen=10)
    base_wait,           \* spot_load.py:34, in ms
    total_requests,      \* spot_load.py:35
    request_log,         \* the file at REQUEST_LOG_PATH (exists: there is one; valid: it is JSON)
    raised,              \* the exception that ended the last operation, or "none"
    released,            \* history: the instants at which check_rate_limit returned
    restartAt,           \* history: Len(released) at each restart of the process
    idles,               \* history: the number of pauses between fetches so far
    call,                \* the fetch in progress: its function, arguments and locals
    result,              \* what the fetch returned: "pending", "None", "payload", "items"
    attempts,            \* history: upstream requests made by the fetch in progress
    backoffs,            \* history: the 429 sleeps of the fetch, [retry_after, slept] in ms
    upstream_requests,   \* history: every request sent to the upstream API
    at_call,             \* history: the limiter's windows and counter when the fetch began
    store,               \* db/spotify.sqlite: one bag of rows per table
    last_dump,           \* history: the last dump_* call, its payload and the store before it
    dumps,               \* history: the number of dump_* calls so far
    crawl_pc,            \* position of __main__ in its crawl loop
    check_type,          \* spot_load.py:741
    check_albums,        \* spot_load.py:742
    committed,           \* the store as of the last conn.commit()
    batch_i,             \* the counter i of the inner loop in progress (line 746)
    boundaries,          \* history: the stores seen with no batch half persisted
    failed_batches,      \* history: fetches that failed in a row in the loop in progress
    artist_columns,      \* the columns of the Artist table of the database in use
    retrieved_albums,    \* the artists whose retrieved_albums is 1 (line 828)
    timestamps,          \* lastfm.py:8, shared by the workers of the pool
    workers,             \* lastfm.py:71, where each worker is in get_genre (a bag)
    artist_list,         \* lastfm.py:72, the artists no worker has taken yet
    genre_requests,      \* history: when each requests.get was issued
    tokens               \* the files at ACCESS_TOKEN_PATH and REFRESH_TOKEN_PATH

limiterVars == <<halfmin_timestamps, hourly_timestamps, daily_timestamps,
                 response_times, base_wait, total_requests>>

fetchVars == <<call, result, attempts, backoffs, upstream_requests, at_call>>

vars == <<now, proc, pc, halfmin_timestamps, hourly_timestamps, daily_timestamps,
          response_times, base_wait, total_requests, request_log, raised,
          released, restartAt, idles, call, result, attempts, backoffs,
          upstream_requests, at_call, store, last_dump, dumps, crawl_pc, check_type,
          check_albums, committed, batch_i, boundaries, failed_batches, artist_columns,
          retrieved_albums, timestamps, workers, artist_list, genre_requests, tokens>>

dbVars == <<store, last_dump, dumps>>

crawlVars == <<crawl_pc, check_type, check_albums, committed, batch_i, boundaries,
               failed_batches, artist_columns, retrieved_albums>>
genreVars == <<timestamps, workers, artist_list, genre_requests>>

----------------------------------------------------------------------------
(* Program constants, in ms where they are durations.                      *)

HALFMIN == 30000
HOUR == 3600000
DAY == 86400000
MARGIN == 1000
BASE_WAIT_MIN == 100
RESPONSE_TIMES_MAXLEN == 10
ADAPT_MIN_SAMPLES == 5

(* The caps of the three windows.  The source sets 50 / 4000 / 30000; the  *)
(* model scales them down so that a bounded run fills each window.         *)
MAX_REQUESTS_PER_30_SEC == 2
MAX_REQUESTS_PER_HOUR == 5
MAX_REQUESTS_PER_DAY == 6

(* Bounds of the model.                                                    *)
MaxCalls == 5
MaxRestarts == 1
MaxIdles == 2

(* Idle time between two fetches, in ms.                                   *)
Gaps == {29100, 29950}

(* What urlopen meets: <<latency in ms, success>>.                         *)
Outcomes == { <<0, FALSE>>, <<400, TRUE>> }

----------------------------------------------------------------------------
(* Helpers on sequences.                                                   *)

RECURSIVE SumSeq(_)
SumSeq(s) == IF s = <<>> THEN 0 ELSE Head(s) + SumSeq(Tail(s))

Max2(a, b) == IF a >= b THEN a ELSE b

(* deque.popleft() while the head is older than the window (strictly).     *)
RECURSIVE Evict(_, _, _)
Evict(q, current_time, window) ==
    IF q # <<>> /\ current_time - Head(q) > window
    THEN Evict(Tail(q), current_time, window)
    ELSE q

(* deque(maxlen=10).append(x): the oldest sample falls out.                *)
AppendBounded(q, x) ==
    IF Len(q) >= RESPONSE_TIMES_MAXLEN THEN Append(Tail(q), x) ELSE Append(q, x)

----------------------------------------------------------------------------
(* check_rate_limit, spot_load.py:61-117.                                  *)

(* The argument of the time.sleep of one window: 0 stands for "no sleep".  *)
(* wait_time = window - (current_time - q[0]); time.sleep(wait_time + 1).  *)
CapSleep(q, cap, window, current_time) ==
    IF Len(q) >= cap THEN window - (current_time - q[1]) + MARGIN ELSE 0

(* The three sleeps in program order; a negative argument makes time.sleep *)
(* raise ValueError, and the sleeps after it do not happen.                *)
CapSleeps(current_time) ==
    << CapSleep(halfmin_timestamps, MAX_REQUESTS_PER_30_SEC, HALFMIN, current_time),
       CapSleep(hourly_timestamps, MAX_REQUESTS_PER_HOUR, HOUR, current_time),
       CapSleep(daily_timestamps, MAX_REQUESTS_PER_DAY, DAY, current_time) >>

SleepRaises(s) == s[1] < 0 \/ s[2] < 0 \/ s[3] < 0

(* Time slept before the call returns or raises.                           *)
SleptBeforeEnd(s) ==
    IF s[1] < 0 THEN 0
    ELSE IF s[2] < 0 THEN s[1]
    ELSE IF s[3] < 0 THEN s[1] + s[2]
    ELSE s[1] + s[2] + s[3]

(* The adaptation without the floor of line 101.                           *)
AdaptedBaseWaitWithoutFloor ==
    IF Len(response_times) > ADAPT_MIN_SAMPLES
    THEN (3 * SumSeq(response_times)) \div (2 * Len(response_times))
    ELSE base_wait

(* base_wait = max(0.1, avg_response_time * 1.5) once more than 5 samples. *)
AdaptedBaseWait ==
    IF Len(response_times) > ADAPT_MIN_SAMPLES
    THEN Max2(BASE_WAIT_MIN, (3 * SumSeq(response_times)) \div (2 * Len(response_times)))
    ELSE base_wait

(* The timestamp the call records: current_time, read on entry (line 69).  *)
RecordedTimestamp(current_time, returned_at) == current_time

(* The record step alone.                                                  *)
WindowAfterWithoutEviction(q, stamp, current_time, window) == Append(q, stamp)

(* The windows after the record and evict steps (lines 105-117).           *)
WindowAfter(q, stamp, current_time, window) ==
    Evict(Append(q, stamp), current_time, window)

(* A number text that keeps the thousands only.                            *)
RECURSIVE JsonNumberRounded(_)
JsonNumberRounded(x) ==
    IF x < 1000 THEN <<0>> ELSE Append(JsonNumberRounded(x \div 10), 0)

(* json.dump of a number (line 59): its decimal digits, the first first.   *)
RECURSIVE JsonNumber(_)
JsonNumber(x) == IF x < 10 THEN <<x>> ELSE Append(JsonNumber(x \div 10), x % 10)

(* json.load of a number text (line 40).                                   *)
RECURSIVE ParseNumber(_)
ParseNumber(digits) ==
    IF digits = <<>> THEN 0
    ELSE 10 * ParseNumber(SubSeq(digits, 1, Len(digits) - 1)) + digits[Len(digits)]

(* save_request_log, spot_load.py:51-59: the JSON document written, an     *)
(* object of the counter and the three deques as lists.                    *)
SavedLog ==
    [ exists |-> TRUE,
      valid |-> TRUE,
      total_requests |-> JsonNumber(total_requests),
      halfmin_timestamps |-> [i \in 1..Len(halfmin_timestamps) |->
                                 JsonNumber(halfmin_timestamps[i])],
      hourly_timestamps |-> [i \in 1..Len(hourly_timestamps) |->
                                JsonNumber(hourly_timestamps[i])],
      daily_timestamps |-> [i \in 1..Len(daily_timestamps) |->
                               JsonNumber(daily_timestamps[i])] ]

(* No file at REQUEST_LOG_PATH: load_request_log starts fresh (line 46).   *)
NoLog ==
    [ exists |-> FALSE, valid |-> FALSE, total_requests |-> <<>>,
      halfmin_timestamps |-> <<>>, hourly_timestamps |-> <<>>, daily_timestamps |-> <<>> ]

(* A completed check_rate_limit: the effect on the limiter and the clock.  *)
(* `then` is the time the caller spends after it within the same step.     *)
CheckRateLimitReturns(then) ==
    LET current_time == now
        s == CapSleeps(current_time)
        returned_at == current_time + base_wait + SleptBeforeEnd(s)
        stamp == RecordedTimestamp(current_time, returned_at)
    IN  /\ ~SleepRaises(s)
        /\ now' = returned_at + then
        /\ base_wait' = AdaptedBaseWait
        /\ halfmin_timestamps' = WindowAfter(halfmin_timestamps, stamp, current_time, HALFMIN)
        /\ hourly_timestamps' = WindowAfter(hourly_timestamps, stamp, current_time, HOUR)
        /\ daily_timestamps' = WindowAfter(daily_timestamps, stamp, current_time, DAY)
        /\ total_requests' = total_requests + 1
        /\ released' = Append(released, returned_at)

(* check_rate_limit raising ValueError out of a negative time.sleep: the   *)
(* limiter state is as it was, the time slept so far has passed.           *)
CheckRateLimitRaises ==
    LET current_time == now
        s == CapSleeps(current_time)
    IN  /\ SleepRaises(s)
        /\ now' = current_time + base_wait + SleptBeforeEnd(s)
        /\ UNCHANGED <<limiterVars, released>>

----------------------------------------------------------------------------
(* The limiter driven by a sequence of fetches: SpecRL.                    *)

InitLimiter ==
    /\ halfmin_timestamps = <<>>
    /\ hourly_timestamps = <<>>
    /\ daily_timestamps = <<>>
    /\ response_times = <<>>
    /\ base_wait = BASE_WAIT_MIN
    /\ total_requests = 0

(* No fetch in progress.  Of the fields, `outcomes` is the history of     *)
(* what the requests of the call met, and `kept` the longest list of items *)
(* a paginated call has held.                                              *)
NoCall ==
    [ fn |-> "none", variant |-> "none", item_type |-> "none", n_ids |-> 0,
      retries |-> 0, retries0 |-> 0, offset |-> 0, total |-> 0, items |-> <<>>,
      upstream_total |-> 0, all_ok |-> TRUE, outcomes |-> <<>>, kept |-> <<>> ]

(* The store right after create_tables (lines 321-401): every table empty. *)
EmptyStore ==
    [ Track |-> EmptyBag, Album |-> EmptyBag, Artist |-> EmptyBag, Genre |-> EmptyBag,
      TrackArtist |-> EmptyBag, AlbumArtist |-> EmptyBag, ArtistGenre |-> EmptyBag ]

NoDump == [ fn |-> "none", payload |-> <<>>, before |-> EmptyStore ]

InitNoDb ==
    /\ store = EmptyStore
    /\ last_dump = NoDump
    /\ dumps = 0

InitNoCrawl ==
    /\ crawl_pc = "off"
    /\ check_type = "tracks"
    /\ check_albums = FALSE
    /\ committed = EmptyStore
    /\ batch_i = 1
    /\ boundaries = {}
    /\ failed_batches = 0
    /\ artist_columns = {"id", "name", "popularity", "followers"}
    /\ retrieved_albums = {}

(* Neither token file exists.                                              *)
NoTokens ==
    [ access_exists |-> FALSE, access_mtime |-> 0, access_token |-> "none",
      refresh_exists |-> FALSE ]

(* lastfm.py:71: ThreadPoolExecutor(max_workers=5).                       *)
MAX_WORKERS == 5

IdleWorker == [pc |-> "idle", cur_time |-> 0, wake_at |-> 0]

(* No pool of lastfm.py at work.                                           *)
InitNoGenre ==
    /\ timestamps = <<>>
    /\ workers = [w \in {IdleWorker} |-> MAX_WORKERS]
    /\ artist_list = 0
    /\ genre_requests = <<>>

InitNoFetch ==
    /\ call = NoCall
    /\ result = "pending"
    /\ attempts = 0
    /\ backoffs = <<>>
    /\ upstream_requests = 0
    /\ at_call = <<>>

(* The module's globals (lines 30-35), before load_request_log (proc =    *)
(* "stopped") or after it met no file; the file at REQUEST_LOG_PATH is     *)
(* absent or holds something that is no JSON.                              *)
InitRL ==
    /\ InitLimiter
    /\ now = 0
    /\ \/ proc = "running" /\ request_log = NoLog
       \/ proc = "stopped" /\ request_log \in {NoLog, [NoLog EXCEPT !.exists = TRUE]}
    /\ pc = "idle"
    /\ raised = "none"
    /\ released = <<>>
    /\ restartAt = <<>>
    /\ idles = 0
    /\ InitNoFetch
    /\ InitNoDb
    /\ InitNoCrawl
    /\ InitNoGenre
    /\ tokens = NoTokens

(* A fetcher calls check_rate_limit() and it returns (e.g. line 194), in   *)
(* a run of at most max_calls calls that return.                           *)
AcquireWithin(max_calls) ==
    /\ proc = "running" /\ pc \in {"idle", "rested"}
    /\ Len(released) < max_calls
    /\ CheckRateLimitReturns(0)
    /\ pc' = "acquired"
    /\ UNCHANGED <<dbVars, crawlVars, genreVars, tokens>>
    /\ UNCHANGED <<proc, response_times, request_log, raised, restartAt, idles, fetchVars>>

Acquire == AcquireWithin(MaxCalls)

(* check_rate_limit() raises: the ValueError leaves the crawl loop through *)
(* its finally clause, which saves the request log (lines 854-858).        *)
AcquireRaises ==
    /\ proc = "running" /\ pc \in {"idle", "rested"}
    /\ CheckRateLimitRaises
    /\ request_log' = SavedLog
    /\ proc' = "stopped"
    /\ raised' = "ValueError"
    /\ UNCHANGED <<dbVars, crawlVars, genreVars, tokens>>
    /\ UNCHANGED <<pc, restartAt, idles, fetchVars>>

(* urlopen after the limiter returned: a success records its latency       *)
(* (lines 195-198), a failure does not.                                    *)
Respond(lat, ok) ==
    /\ proc = "running" /\ pc = "acquired"
    /\ now' = now + lat
    /\ response_times' = IF ok THEN AppendBounded(response_times, lat) ELSE response_times
    /\ pc' = "idle"
    /\ UNCHANGED <<dbVars, crawlVars, genreVars, tokens>>
    /\ UNCHANGED <<proc, halfmin_timestamps, hourly_timestamps, daily_timestamps,
                   base_wait, total_requests, request_log, raised, released, restartAt,
                   idles, fetchVars>>

(* Time passing between two fetches, or while the process is down.         *)
Idle(gap) ==
    /\ pc = "idle"
    /\ Len(released) < MaxCalls
    /\ proc = "running" \/ Len(restartAt) < MaxRestarts
    /\ idles < MaxIdles
    /\ now' = now + gap
    /\ pc' = "rested"
    /\ idles' = idles + 1
    /\ UNCHANGED <<dbVars, crawlVars, genreVars, tokens>>
    /\ UNCHANGED <<proc, limiterVars, request_log, raised, released, restartAt, fetchVars>>

(* The operator interrupts the crawl loop: finally saves the request log.  *)
Stop ==
    /\ proc = "running" /\ pc \in {"idle", "rested"}
    /\ Len(restartAt) < MaxRestarts
    /\ request_log' = SavedLog
    /\ proc' = "stopped"
    /\ UNCHANGED <<dbVars, crawlVars, genreVars, tokens>>
    /\ UNCHANGED <<now, pc, limiterVars, raised, released, restartAt, idles, fetchVars>>

(* A new process: the module's globals are fresh (lines 30-35), then       *)
(* load_request_log (lines 37-49) restores what the file holds.            *)
Restart ==
    /\ proc = "stopped"
    /\ Len(restartAt) < MaxRestarts
    /\ proc' = "running"
    /\ pc' = "idle"
    /\ raised' = "none"
    /\ response_times' = <<>>
    /\ base_wait' = BASE_WAIT_MIN
    /\ IF ~request_log.exists \/ ~request_log.valid
       THEN \* FileNotFoundError, json.JSONDecodeError: nothing is assigned
            /\ total_requests' = 0
            /\ halfmin_timestamps' = <<>>
            /\ hourly_timestamps' = <<>>
            /\ daily_timestamps' = <<>>
       ELSE /\ total_requests' = ParseNumber(request_log.total_requests)
            /\ halfmin_timestamps' = [i \in 1..Len(request_log.halfmin_timestamps) |->
                                         ParseNumber(request_log.halfmin_timestamps[i])]
            /\ hourly_timestamps' = [i \in 1..Len(request_log.hourly_timestamps) |->
                                        ParseNumber(request_log.hourly_timestamps[i])]
            /\ daily_timestamps' = [i \in 1..Len(request_log.daily_timestamps) |->
                                       ParseNumber(request_log.daily_timestamps[i])]
    /\ restartAt' = IF released = <<>> THEN restartAt ELSE Append(restartAt, Len(released))
    /\ UNCHANGED <<dbVars, crawlVars, genreVars, tokens>>
    /\ UNCHANGED <<now, request_log, released, idles, fetchVars>>

NextRL ==
    \/ Acquire
    \/ AcquireRaises
    \/ \E o \in Outcomes : Respond(o[1], o[2])
    \/ \E gap \in Gaps : Idle(gap)
    \/ Stop
    \/ Restart

SpecRL == InitRL /\ [][NextRL]_vars

----------------------------------------------------------------------------
(* One long-lived process whose fetches are minutes, hours and days apart, *)
(* with fast and slow responses: SpecLong.                                 *)

(* Bounds of the model: the pauses of a run, its calls that return.        *)
MaxPauses == 3
MaxLongCalls == 7

(* What urlopen meets: a fast response, a slow one.                        *)
LongOutcomes == { <<40, TRUE>>, <<400, TRUE>> }

(* Time between two fetches of the crawl loop, in ms.                      *)
Pauses == {30400, HOUR + 500, DAY + 500}

(* A process that found no request log.                                    *)
InitLong ==
    /\ InitLimiter
    /\ now = 0
    /\ proc = "running"
    /\ request_log = NoLog
    /\ pc = "idle"
    /\ raised = "none"
    /\ released = <<>>
    /\ restartAt = <<>>
    /\ idles = 0
    /\ InitNoFetch
    /\ InitNoDb
    /\ InitNoCrawl
    /\ InitNoGenre
    /\ tokens = NoTokens

(* The crawl loop works on the store between two fetches (lines 744-835).  *)
Pause(gap) ==
    /\ proc = "running" /\ pc = "idle"
    /\ Len(released) < MaxLongCalls
    /\ idles < MaxPauses
    /\ now' = now + gap
    /\ pc' = "rested"
    /\ idles' = idles + 1
    /\ UNCHANGED <<dbVars, crawlVars, genreVars, tokens>>
    /\ UNCHANGED <<proc, limiterVars, request_log, raised, released, restartAt, fetchVars>>

NextLong ==
    \/ AcquireWithin(MaxLongCalls)
    \/ AcquireRaises
    \/ \E o \in LongOutcomes : Respond(o[1], o[2])
    \/ \E gap \in Pauses : Pause(gap)

SpecLong == InitLong /\ [][NextLong]_vars

(* No interval of length `window` holds more than `cap` of the instants at *)
(* which check_rate_limit returned, among released[from..].                *)
CapRespected(cap, window) ==
    \A i \in 1..Len(released) :
        i + cap <= Len(released) => released[i + cap] - released[i] >= window

(* The same for the intervals that span a restart of the process: some of  *)
(* the cap+1 requests went out before it and some after.                   *)
CapRespectedAcrossRestart(cap, window) ==
    \A k \in 1..Len(restartAt) :
        \A i \in 1..Len(released) :
            (i <= restartAt[k] /\ restartAt[k] < i + cap /\ i + cap <= Len(released))
                => released[i + cap] - released[i] >= window

(* C1: in a run of sequential check_rate_limit calls that starts from      *)
(* empty windows, no sliding interval of 30 s, 1 h or 1 day contains more  *)
(* than the window's cap of the instants at which the call returned.       *)
C1_NeverExceedsWindowCaps ==
    restartAt = <<>> =>
        /\ CapRespected(MAX_REQUESTS_PER_30_SEC, HALFMIN)
        /\ CapRespected(MAX_REQUESTS_PER_HOUR, HOUR)
        /\ CapRespected(MAX_REQUESTS_PER_DAY, DAY)

(* C7: the timestamps restored by load_request_log count toward the caps:  *)
(* no 30-second interval that spans a restart holds more than the cap of   *)
(* requests, those issued before the restart and those issued after it.    *)
C7_RestartKeepsWindowCap ==
    CapRespectedAcrossRestart(MAX_REQUESTS_PER_30_SEC, HALFMIN)

----------------------------------------------------------------------------
(* The fetchers.  get_info and get_batch_info of spot_load.py (119-213)    *)
(* and of the draft spotifyload.py (159-227), which has no rate limiter;   *)
(* get_user_saved and get_artist_albums of spot_load.py (215-302).         *)

PAGE_LIMIT == 50
MAX_BATCH_TRACKS == 50
MAX_BATCH_ARTISTS == 50
MAX_BATCH_ALBUMS == 20
DRAFT_MAX_BATCH == 50
BACKOFF_EXPONENT_BASE == 3
DEFAULT_RETRY_AFTER == 1000

(* Bounds of the model.                                                    *)
MaxPrior == 2
MaxTotal == 160

Variants == {"spot_load", "spotifyload"}
Kinds == {"track", "album", "artist", "playlist", "show"}
RetriesArgs == {1, 3, 4}
BatchSizes == {0, 1, MAX_BATCH_ALBUMS, MAX_BATCH_ALBUMS + 1, MAX_BATCH_TRACKS,
               MAX_BATCH_TRACKS + 1}
Totals == {0, 1, PAGE_LIMIT, PAGE_LIMIT + 1, 130, MaxTotal}

(* What one urlopen meets.  "ok": 200 with a JSON body; "malformed": 200   *)
(* with a body that is no JSON; "429" with or without a Retry-After header *)
(* (seconds, here in ms); "http": another HTTP error; "error": a transport *)
(* error.                                                                  *)
FetchOutcomes ==
    { [kind |-> "ok", lat |-> 200, has_retry_after |-> FALSE, retry_after |-> 0],
      [kind |-> "malformed", lat |-> 200, has_retry_after |-> FALSE, retry_after |-> 0],
      [kind |-> "429", lat |-> 0, has_retry_after |-> FALSE, retry_after |-> 0],
      [kind |-> "429", lat |-> 0, has_retry_after |-> TRUE, retry_after |-> 3000],
      [kind |-> "http", lat |-> 0, has_retry_after |-> FALSE, retry_after |-> 0],
      [kind |-> "error", lat |-> 0, has_retry_after |-> FALSE, retry_after |-> 0] }

(* valid_types of get_info (line 138; the draft names them in the plural). *)
ValidInfoTypes == {"track", "album", "artist", "playlist"}

(* valid_types of get_batch_info (line 182).                               *)
ValidBatchTypes == {"track", "album", "artist"}

(* The largest batch get_batch_info accepts (lines 187-189; the draft has  *)
(* one maximum for every kind, spotifyload.py:205).                        *)
MaxBatch(variant, item_type) ==
    IF variant = "spotifyload" THEN DRAFT_MAX_BATCH
    ELSE IF item_type = "track" THEN MAX_BATCH_TRACKS
    ELSE IF item_type = "artist" THEN MAX_BATCH_ARTISTS
    ELSE MAX_BATCH_ALBUMS

(* A get_batch_info whose validation lacks the size case.                  *)
BatchValidationWithoutSizeCase(variant, item_type, n_ids) ==
    IF item_type \notin ValidBatchTypes THEN "ValueError"
    ELSE IF n_ids = 0 THEN "None"
    ELSE "request"

(* A get_batch_info whose validation lacks the empty-list case.            *)
BatchValidationWithoutEmptyCase(variant, item_type, n_ids) ==
    IF item_type \notin ValidBatchTypes THEN "ValueError"
    ELSE IF n_ids > MaxBatch(variant, item_type) THEN "ValueError"
    ELSE "request"

(* The checks of get_batch_info before any request (lines 182-189):        *)
(* "ValueError", "None" (the empty list) or "request".                     *)
BatchValidation(variant, item_type, n_ids) ==
    IF item_type \notin ValidBatchTypes THEN "ValueError"
    ELSE IF n_ids = 0 THEN "None"
    ELSE IF n_ids > MaxBatch(variant, item_type) THEN "ValueError"
    ELSE "request"

RECURSIVE Pow2(_)
Pow2(k) == IF k <= 0 THEN 1 ELSE 2 * Pow2(k - 1)

(* int(e.headers.get('Retry-After', 1)), in ms.                            *)
RetryAfterMs(o) == IF o.has_retry_after THEN o.retry_after ELSE DEFAULT_RETRY_AFTER

(* wait_time = retry_after * (2 ** (3 - retries)) (line 154): a negative   *)
(* exponent halves.  The draft sleeps retry_after (spotifyload.py:189).    *)
BackoffSleep(variant, retry_after, retries) ==
    IF variant = "spotifyload" THEN retry_after
    ELSE IF BACKOFF_EXPONENT_BASE - retries >= 0
         THEN retry_after * Pow2(BACKOFF_EXPONENT_BASE - retries)
         ELSE retry_after \div Pow2(retries - BACKOFF_EXPONENT_BASE)

(* A fetcher that retries after every HTTP error.                          *)
RetriesAnyHttpError(o, retries) == o.kind \in {"429", "http"} /\ retries > 0

(* `if e.code == 429 and retries > 0` (lines 152, 202, 247, 291): the      *)
(* only outcome after which a fetcher tries again.                         *)
Retries(o, retries) == o.kind = "429" /\ retries > 0

(* Fetchers none of which calls check_rate_limit().                        *)
PassesLimiterNever(variant) == FALSE

(* Whether an attempt goes through check_rate_limit() first (lines 144,    *)
(* 194, 236, 280); the draft has no limiter.                               *)
PassesLimiter(variant) == variant = "spot_load"

(* The upstream's page at `offset` of a collection of `total` items, the   *)
(* items being numbered 1..total.                                          *)
Page(offset, total) ==
    [ i \in 1..(IF total - offset >= PAGE_LIMIT THEN PAGE_LIMIT
                ELSE IF total - offset > 0 THEN total - offset ELSE 0) |-> offset + i ]

Paginated == {"get_user_saved", "get_artist_albums"}

(* A state in which `prior` requests went out back to back.                *)
InitFetch ==
    \E prior \in 0..MaxPrior :
        LET stamps == [i \in 1..prior |-> (i - 1) * BASE_WAIT_MIN]
        IN  /\ halfmin_timestamps = stamps
            /\ hourly_timestamps = stamps
            /\ daily_timestamps = stamps
            /\ response_times = <<>>
            /\ base_wait = BASE_WAIT_MIN
            /\ total_requests = prior
            /\ upstream_requests = prior
            /\ released = [i \in 1..prior |-> i * BASE_WAIT_MIN]
            /\ now = prior * BASE_WAIT_MIN
            /\ proc = "running"
            /\ pc = "idle"
            /\ request_log = NoLog
            /\ raised = "none"
            /\ restartAt = <<>>
            /\ idles = 0
            /\ call = NoCall
            /\ result = "pending"
            /\ attempts = 0
            /\ backoffs = <<>>
            /\ at_call = <<>>
            /\ InitNoDb
            /\ InitNoCrawl
            /\ InitNoGenre
            /\ tokens = NoTokens
    /\ InitNoGenre
    /\ tokens = NoTokens

BeginCall(c) ==
    /\ call' = c
    /\ attempts' = 0
    /\ backoffs' = <<>>
    /\ at_call' = <<halfmin_timestamps, hourly_timestamps, daily_timestamps, total_requests,
                    base_wait>>
    /\ UNCHANGED <<dbVars, crawlVars, genreVars, tokens>>
    /\ UNCHANGED <<now, proc, limiterVars, request_log, released, restartAt, idles,
                   upstream_requests>>

(* get_info(item_type, item_id, retries): validation (lines 138-140).      *)
CallGetInfo(variant, item_type, retries) ==
    /\ pc = "idle"
    /\ BeginCall([NoCall EXCEPT !.fn = "get_info", !.variant = variant,
                                !.item_type = item_type, !.n_ids = 1,
                                !.retries = retries, !.retries0 = retries])
    /\ IF item_type \in ValidInfoTypes
       THEN pc' = "attempt" /\ UNCHANGED <<result, raised>>
       ELSE pc' = "done" /\ raised' = "ValueError" /\ UNCHANGED result

(* get_batch_info(item_type, item_ids, retries): validation (182-189).     *)
CallGetBatchInfo(variant, item_type, n_ids, retries) ==
    /\ pc = "idle"
    /\ BeginCall([NoCall EXCEPT !.fn = "get_batch_info", !.variant = variant,
                                !.item_type = item_type, !.n_ids = n_ids,
                                !.retries = retries, !.retries0 = retries])
    /\ LET v == BatchValidation(variant, item_type, n_ids)
       IN  CASE v = "request" -> pc' = "attempt" /\ UNCHANGED <<result, raised>>
             [] v = "None" -> pc' = "done" /\ result' = "None" /\ UNCHANGED raised
             [] OTHER -> pc' = "done" /\ raised' = "ValueError" /\ UNCHANGED result

(* get_user_saved(retries) / get_artist_albums(artist_id, retries): the    *)
(* locals before the loop (lines 229-232).                                 *)
CallPaginated(fn, upstream_total, retries) ==
    /\ pc = "idle"
    /\ BeginCall([NoCall EXCEPT !.fn = fn, !.variant = "spot_load",
                                !.retries = retries, !.retries0 = retries,
                                !.offset = 0, !.total = PAGE_LIMIT + 1, !.items = <<>>,
                                !.upstream_total = upstream_total])
    /\ pc' = "attempt"
    /\ UNCHANGED <<result, raised>>

(* The limiter and the clock over one attempt that takes `spent` after the *)
(* limiter returned; `sample` is the latency recorded, if any.             *)
AttemptClock(variant, spent, record, sample) ==
    IF PassesLimiter(variant)
    THEN /\ CheckRateLimitReturns(spent)
         /\ response_times' = IF record THEN AppendBounded(response_times, sample)
                              ELSE response_times
    ELSE /\ now' = now + spent
         /\ UNCHANGED <<limiterVars, released>>

(* One attempt of get_info / get_batch_info: check_rate_limit, urlopen and *)
(* the handling of its outcome (lines 142-163, 191-213).                   *)
FetchAttempt(o) ==
    /\ pc = "attempt"
    /\ call.fn \in {"get_info", "get_batch_info"}
    /\ LET retry == Retries(o, call.retries)
           sleep == IF retry THEN BackoffSleep(call.variant, RetryAfterMs(o), call.retries)
                    ELSE 0
       IN  /\ AttemptClock(call.variant, o.lat + sleep, o.kind \in {"ok", "malformed"}, o.lat)
           /\ backoffs' = IF retry
                          THEN Append(backoffs, [retry_after |-> RetryAfterMs(o), slept |-> sleep])
                          ELSE backoffs
           /\ CASE o.kind = "ok" ->
                     pc' = "done" /\ result' = "payload" /\ UNCHANGED raised
                [] retry /\ call.variant = "spotifyload" /\ call.fn = "get_batch_info" ->
                     \* return get_batch_info(item_type, item_id, ...): item_id is not defined
                     pc' = "done" /\ raised' = "NameError" /\ UNCHANGED result
                [] retry /\ ~(call.variant = "spotifyload" /\ call.fn = "get_batch_info") ->
                     pc' = "attempt" /\ UNCHANGED <<result, raised>>
                [] OTHER ->
                     pc' = "done" /\ result' = "None" /\ UNCHANGED raised
           /\ call' = [call EXCEPT !.outcomes = Append(@, o.kind),
                                   !.retries = IF retry THEN @ - 1 ELSE @]
    /\ attempts' = attempts + 1
    /\ upstream_requests' = upstream_requests + 1
    /\ UNCHANGED <<dbVars, crawlVars, genreVars, tokens>>
    /\ UNCHANGED <<proc, request_log, restartAt, idles, at_call>>

(* One page of get_user_saved / get_artist_albums (lines 233-258).         *)
PageAttempt(o) ==
    /\ pc = "attempt"
    /\ call.fn \in Paginated
    /\ LET retry == Retries(o, call.retries)
           sleep == IF retry THEN BackoffSleep(call.variant, RetryAfterMs(o), call.retries)
                    ELSE 0
           offset2 == call.offset + PAGE_LIMIT
       IN  /\ AttemptClock(call.variant, o.lat + sleep, o.kind \in {"ok", "malformed"}, o.lat)
           /\ backoffs' = IF retry
                          THEN Append(backoffs, [retry_after |-> RetryAfterMs(o), slept |-> sleep])
                          ELSE backoffs
           /\ CASE o.kind = "ok" ->
                     /\ call' = [call EXCEPT !.total = call.upstream_total,
                                             !.items = @ \o Page(call.offset, call.upstream_total),
                                             !.offset = offset2,
                                             !.outcomes = Append(@, o.kind),
                                             !.kept =
                                                 IF Len(call.items) + Len(Page(call.offset,
                                                        call.upstream_total)) > Len(@)
                                                 THEN call.items \o
                                                      Page(call.offset, call.upstream_total)
                                                 ELSE @]
                     /\ IF offset2 < call.upstream_total
                        THEN pc' = "attempt" /\ UNCHANGED result
                        ELSE pc' = "done" /\ result' = "items"
                [] retry ->
                     \* return get_user_saved(retries - 1): a new call, from offset 0
                     /\ call' = [call EXCEPT !.retries = @ - 1, !.offset = 0,
                                             !.total = PAGE_LIMIT + 1, !.items = <<>>,
                                             !.all_ok = FALSE,
                                             !.outcomes = Append(@, o.kind)]
                     /\ pc' = "attempt" /\ UNCHANGED result
                [] OTHER ->
                     \* break; return items
                     /\ call' = [call EXCEPT !.all_ok = FALSE,
                                             !.outcomes = Append(@, o.kind)]
                     /\ pc' = "done" /\ result' = "items"
    /\ attempts' = attempts + 1
    /\ upstream_requests' = upstream_requests + 1
    /\ UNCHANGED <<dbVars, crawlVars, genreVars, tokens>>
    /\ UNCHANGED <<proc, request_log, raised, restartAt, idles, at_call>>

(* check_rate_limit() raises before the attempt's request: it is called    *)
(* outside the try, so the ValueError leaves the fetcher.                  *)
AttemptLimiterRaises ==
    /\ pc = "attempt"
    /\ PassesLimiter(call.variant)
    /\ CheckRateLimitRaises
    /\ pc' = "done"
    /\ raised' = "ValueError"
    /\ UNCHANGED <<dbVars, crawlVars, genreVars, tokens>>
    /\ UNCHANGED <<proc, request_log, restartAt, idles, call, result, attempts, backoffs,
                   upstream_requests, at_call>>

NextFetch ==
    \/ \E v \in Variants, k \in Kinds, r \in RetriesArgs : CallGetInfo(v, k, r)
    \/ \E v \in Variants, k \in Kinds, n \in BatchSizes, r \in RetriesArgs :
          CallGetBatchInfo(v, k, n, r)
    \/ \E fn \in Paginated, t \in Totals, r \in RetriesArgs : CallPaginated(fn, t, r)
    \/ \E o \in FetchOutcomes : FetchAttempt(o)
    \/ \E o \in FetchOutcomes : PageAttempt(o)
    \/ AttemptLimiterRaises

SpecFetch == InitFetch /\ [][NextFetch]_vars

----------------------------------------------------------------------------
(* Properties of the fetchers.                                             *)

LimiterAtCall == <<halfmin_timestamps, hourly_timestamps, daily_timestamps, total_requests,
                   base_wait>>

(* The kind-specific maximum: 50 tracks, 50 artists, 20 albums.            *)
KindMaximum(item_type) ==
    IF item_type = "album" THEN MAX_BATCH_ALBUMS
    ELSE IF item_type = "artist" THEN MAX_BATCH_ARTISTS
    ELSE MAX_BATCH_TRACKS

(* ceil(T / 50), at least one.                                             *)
PageFetches(total) ==
    IF total = 0 THEN 1 ELSE (total + PAGE_LIMIT - 1) \div PAGE_LIMIT

(* C4: get_batch_info fails validation, before any request, exactly when   *)
(* the number of ids exceeds the maximum of its kind (50 tracks, 50        *)
(* artists, 20 albums); 1..max ids are accepted and go upstream.           *)
C4_BatchSizeEnforced ==
    (call.fn = "get_batch_info" /\ call.item_type \in ValidBatchTypes) =>
        /\ call.n_ids > KindMaximum(call.item_type) =>
              (pc = "done" /\ raised = "ValueError" /\ attempts = 0)
        /\ call.n_ids \in 1..KindMaximum(call.item_type) =>
              ~(raised = "ValueError" /\ attempts = 0)

(* C5: get_batch_info(kind, []) for a valid kind returns the empty result  *)
(* without an error, sends no upstream request and leaves the limiter's    *)
(* windows and its request counter as they were.                           *)
C5_EmptyBatchNoRequest ==
    (call.fn = "get_batch_info" /\ call.item_type \in ValidBatchTypes /\ call.n_ids = 0) =>
        /\ pc = "done"
        /\ result = "None"
        /\ raised = "none"
        /\ attempts = 0
        /\ LimiterAtCall = at_call

C5_Witness ==
    /\ call.fn = "get_batch_info"
    /\ call.variant = "spot_load"
    /\ call.item_type = "album"
    /\ call.n_ids = 0
    /\ pc = "done"
    /\ total_requests = MaxPrior

(* C6: when every page request succeeds and the endpoint reports a         *)
(* constant total T, get_user_saved / get_artist_albums return exactly the *)
(* T upstream items, in upstream order, in ceil(T/50) page fetches (at     *)
(* least one), and do not raise.                                           *)
C6_PaginationComplete ==
    (call.fn \in Paginated /\ call.all_ok) =>
        /\ raised = "none"
        /\ pc = "done" =>
              /\ result = "items"
              /\ call.items = [i \in 1..call.upstream_total |-> i]
              /\ attempts = PageFetches(call.upstream_total)

(* C8: each sleep after a 429 of get_info / get_batch_info is              *)
(* retry_after * 2^attempt (attempt = 0 for the first 429 of the call),    *)
(* hence never shorter than the server's Retry-After.                      *)
C8_SleepHonorsRetryAfter ==
    (call.fn \in {"get_info", "get_batch_info"} /\ call.variant = "spot_load") =>
        \A i \in 1..Len(backoffs) :
            /\ backoffs[i].slept = backoffs[i].retry_after * Pow2(i - 1)
            /\ backoffs[i].slept >= backoffs[i].retry_after

(* C9: get_info and get_batch_info, in both variants, make at most         *)
(* 1 + retries attempts and then return; no exception leaves the fetch     *)
(* once it has started requesting.                                         *)
C9_BoundedRetryTypedFailure ==
    (call.fn \in {"get_info", "get_batch_info"} /\ attempts > 0) =>
        /\ attempts <= 1 + call.retries0
        /\ raised = "none"
        /\ pc = "done" => result \in {"None", "payload"}

(* C10: every upstream request of get_info, get_batch_info, get_user_saved *)
(* and get_artist_albums of spot_load.py is preceded by one completed      *)
(* check_rate_limit(): the limiter's counter equals the number of upstream *)
(* requests, and grows by one with each attempt of the call.               *)
C10_LimiterBeforeEveryAttempt ==
    call.variant # "spotifyload" =>
        /\ total_requests = upstream_requests
        /\ Len(released) = upstream_requests
        /\ call.fn # "none" => total_requests = at_call[4] + attempts

C10_Witness ==
    /\ call.fn \in Paginated
    /\ call.variant = "spot_load"
    /\ Len(backoffs) >= 1
    /\ call.offset >= PAGE_LIMIT
    /\ attempts >= 3

Single == {"get_info", "get_batch_info"}

C22_TransportErrorsRetried ==
    (call.fn \in Single /\ call.variant = "spot_load") =>
        \A i \in 1..Len(call.outcomes) :
            (call.outcomes[i] = "error" /\ i <= call.retries0) =>
                /\ Len(backoffs) >= i
                /\ (i < Len(call.outcomes) \/ pc = "attempt")

(* C23: a body that is no JSON ends get_info / get_batch_info of           *)
(* spot_load.py with no further attempt, and with a result other than      *)
(* None, the value returned after an HTTP error and after the last 429.    *)
C23_MalformedIsDistinctFailure ==
    (call.fn \in Single /\ call.variant = "spot_load") =>
        \A i \in 1..Len(call.outcomes) :
            call.outcomes[i] = "malformed" =>
                /\ i = Len(call.outcomes)
                /\ pc = "done"
                /\ result \notin {"None", "payload"}

(* C24: the list returned by get_user_saved / get_artist_albums holds      *)
(* every item the call had collected; none is dropped because a later      *)
(* page was rate-limited or failed.                                        *)
C24_PageFailureTruncates ==
    (call.fn \in Paginated /\ pc = "done" /\ result = "items") =>
        /\ Len(call.items) >= Len(call.kept)
        /\ SubSeq(call.items, 1, Len(call.kept)) = call.kept

(* C25: a call of get_info or get_batch_info with a kind outside the       *)
(* accepted set, or of get_batch_info with more ids than the maximum,      *)
(* raises ValueError before any request and before check_rate_limit():     *)
(* no attempt is made, and the windows, total_requests and base_wait are   *)
(* as they were when the call began.                                       *)
C25_ValidationPrecedesNetwork ==
    (\/ call.fn = "get_info" /\ call.item_type \notin ValidInfoTypes
     \/ call.fn = "get_batch_info" /\ call.item_type \notin ValidBatchTypes
     \/ call.fn = "get_batch_info" /\ call.n_ids > MaxBatch(call.variant, call.item_type)) =>
        /\ pc = "done"
        /\ raised = "ValueError"
        /\ result = "pending"
        /\ attempts = 0
        /\ Len(call.outcomes) = 0
        /\ LimiterAtCall = at_call

C25_Witness ==
    /\ call.fn = "get_batch_info"
    /\ call.variant = "spot_load"
    /\ call.item_type = "album"
    /\ call.n_ids = MAX_BATCH_ALBUMS + 1
    /\ raised = "ValueError"
    /\ total_requests = MaxPrior
    /\ Len(halfmin_timestamps) = MaxPrior

----------------------------------------------------------------------------
(* The store: the tables of create_tables (lines 321-401) and the dump     *)
(* operations (lines 428-673).  A table is a bag of rows.  A row keeps the *)
(* key columns and `name`; the other data columns (duration, popularity,   *)
(* label, followers, ...) are written by the same statements as `name`     *)
(* and follow it.  "NULL" is SQL NULL in a text column, <<>> in a date.    *)

(* The rows of `table` that collide with `row` on the columns of `key`.    *)
Conflicts(table, row, key) ==
    { r \in BagToSet(table) : \A c \in key : r[c] = row[c] }

(* INSERT OR REPLACE: the colliding rows are deleted, the row is inserted. *)
InsertOrReplace(table, row, key) ==
    LET kept == BagToSet(table) \ Conflicts(table, row, key)
    IN  [r \in kept |-> table[r]] (+) SetToBag({row})

(* An INSERT into a table that has no key: the row is always added.        *)
InsertUnkeyed(table, row, key) == table (+) SetToBag({row})

(* An INSERT OR IGNORE that behaves as INSERT OR REPLACE.                   *)
InsertStubReplacing(table, row, key) == InsertOrReplace(table, row, key)

(* INSERT OR IGNORE: nothing happens when a row collides on the key.       *)
InsertOrIgnore(table, row, key) ==
    IF Conflicts(table, row, key) # {} THEN table ELSE table (+) SetToBag({row})

TrackRow(id, name, album_id) == [id |-> id, name |-> name, album_id |-> album_id]
AlbumRow(id, name, release_date) == [id |-> id, name |-> name, release_date |-> release_date]
ArtistRow(id, name) == [id |-> id, name |-> name]

(* The key of each table (lines 321-401): the PRIMARY KEY, and for Genre   *)
(* the UNIQUE name, its id being assigned by AUTOINCREMENT.                *)
TableKey(table) ==
    CASE table = "TrackArtist" -> {"track_id", "artist_id"}
      [] table = "AlbumArtist" -> {"album_id", "artist_id"}
      [] table = "ArtistGenre" -> {"artist_id", "genre_id"}
      [] table = "Genre" -> {"name"}
      [] OTHER -> {"id"}

(* One cursor.execute of a dump function.  "GENRE" is the insert of line   *)
(* 662, "LINKGENRE" the SELECT and insert of lines 666-673; "RAISE" is the *)
(* raise of line 597.                                                      *)
Replace(table, row) == [op |-> "REPLACE", table |-> table, row |-> row]
Ignore(table, row) == [op |-> "IGNORE", table |-> table, row |-> row]
Raise(exception) == [op |-> "RAISE", table |-> "none", row |-> [exception |-> exception]]

(* The relation row and then the artist stub, for each artist id in order  *)
(* (lines 535-543, 608-616).                                               *)
RECURSIVE ArtistLinks(_, _, _)
ArtistLinks(relation, owner_id, artist_ids) ==
    IF artist_ids = <<>> THEN <<>>
    ELSE LET artist_id == Head(artist_ids)
             link == IF relation = "TrackArtist"
                     THEN [track_id |-> owner_id, artist_id |-> artist_id]
                     ELSE [album_id |-> owner_id, artist_id |-> artist_id]
         IN  <<Ignore(relation, link), Ignore("Artist", ArtistRow(artist_id, "NULL"))>>
                 \o ArtistLinks(relation, owner_id, Tail(artist_ids))

(* The body of the loop of dump_tracks / dump_user_saved for one track     *)
(* (lines 517-550).                                                        *)
TrackStatements(track) ==
    <<Replace("Track", TrackRow(track.id, track.name, track.album))>>
        \o ArtistLinks("TrackArtist", track.id, track.artists)
        \o <<Ignore("Album", AlbumRow(track.album, "NULL", <<>>))>>

(* A release date is the sequence of its fields: <<y>>, <<y, m>> or        *)
(* <<y, m, d>>, printed in 4, 7 or 10 characters.                          *)
DateChars(release_date) == 4 + 3 * (Len(release_date) - 1)

ValidDate(release_date) == DateChars(release_date) \in {4, 7, 10}

(* Lines 594-597: "-01-01" or "-01" is appended to a short date.           *)
IsoDate(release_date) ==
    IF DateChars(release_date) = 4 THEN release_date \o <<1, 1>>
    ELSE IF DateChars(release_date) = 7 THEN release_date \o <<1>>
    ELSE release_date

RECURSIVE TrackStubs(_)
TrackStubs(track_ids) ==
    IF track_ids = <<>> THEN <<>>
    ELSE <<Ignore("Track", TrackRow(Head(track_ids), "NULL", "NULL"))>>
             \o TrackStubs(Tail(track_ids))

(* The body of the loop of dump_albums for one album (lines 584-624): the  *)
(* date is checked before anything is written.                             *)
AlbumStatements(album) ==
    IF ~ValidDate(album.release_date) THEN <<Raise("ValueError")>>
    ELSE <<Replace("Album", AlbumRow(album.id, album.name, IsoDate(album.release_date)))>>
             \o ArtistLinks("AlbumArtist", album.id, album.artists)
             \o TrackStubs(album.tracks)

RECURSIVE GenreLinks(_, _)
GenreLinks(artist_id, genres) ==
    IF genres = <<>> THEN <<>>
    ELSE << [op |-> "GENRE", table |-> "Genre", row |-> [name |-> Head(genres)]],
            [op |-> "LINKGENRE", table |-> "ArtistGenre",
             row |-> [artist_id |-> artist_id, name |-> Head(genres)]] >>
             \o GenreLinks(artist_id, Tail(genres))

(* The body of the loop of dump_artists for one artist (lines 646-673).    *)
ArtistStatements(artist) ==
    <<Replace("Artist", ArtistRow(artist.id, artist.name))>>
        \o GenreLinks(artist.id, artist.genres)

(* dump_artist_albums after get_artist_albums returned (lines 688-693).    *)
RECURSIVE AlbumStubs(_)
AlbumStubs(albums) ==
    IF albums = <<>> THEN <<>>
    ELSE <<Ignore("Album", AlbumRow(Head(albums).id, "NULL", <<>>))>>
             \o AlbumStubs(Tail(albums))

(* The statements a dump function executes for a payload, in order.        *)
RECURSIVE Statements(_, _)
Statements(fn, payload) ==
    IF payload = <<>> THEN <<>>
    ELSE (CASE fn = "dump_tracks" -> TrackStatements(Head(payload))
            [] fn = "dump_user_saved" -> TrackStatements(Head(payload).track)
            [] fn = "dump_albums" -> AlbumStatements(Head(payload))
            [] fn = "dump_artists" -> ArtistStatements(Head(payload))
            [] OTHER -> AlbumStubs(<<Head(payload)>>))
         \o Statements(fn, Tail(payload))

(* Genre.id is INTEGER PRIMARY KEY AUTOINCREMENT and no genre is deleted.  *)
NextGenreId(genres) == BagCardinality(genres) + 1

(* The effect of one statement on the tables.                              *)
Execute(db, s) ==
    CASE s.op = "REPLACE" ->
             [db EXCEPT ![s.table] = InsertOrReplace(@, s.row, TableKey(s.table))]
      [] s.op = "IGNORE" ->
             [db EXCEPT ![s.table] = InsertOrIgnore(@, s.row, TableKey(s.table))]
      [] s.op = "GENRE" ->
             [db EXCEPT !.Genre = InsertOrIgnore(@, [id |-> NextGenreId(@), name |-> s.row.name],
                                                 TableKey("Genre"))]
      [] s.op = "LINKGENRE" ->
             LET genre_id == (CHOOSE g \in BagToSet(db.Genre) : g.name = s.row.name).id
             IN  [db EXCEPT !.ArtistGenre =
                      InsertOrIgnore(@, [artist_id |-> s.row.artist_id, genre_id |-> genre_id],
                                     TableKey("ArtistGenre"))]
      [] OTHER -> db

(* The statements run in order, up to the first that raises; each acts on *)
(* the store the one before it left.                                       *)
RECURSIVE Run(_, _)
Run(db, statements) ==
    IF statements = <<>> THEN db
    ELSE IF Head(statements).op = "RAISE" THEN db
    ELSE CHOOSE after \in { Run(next, rest) : next \in {Execute(db, Head(statements))},
                                              rest \in {Tail(statements)} } : TRUE

dump_tracks(db, tracks) == Run(db, Statements("dump_tracks", tracks))

dump_user_saved(db, saved_tracks) == Run(db, Statements("dump_user_saved", saved_tracks))

dump_albums(db, albums) == Run(db, Statements("dump_albums", albums))

DumpAlbumsRaises(albums) ==
    \E i \in 1..Len(albums) : ~ValidDate(albums[i].release_date)

dump_artists(db, artists) == Run(db, Statements("dump_artists", artists))

ApplyDump(fn, db, payload) == Run(db, Statements(fn, payload))

(* The upstream catalog: what the API answers for each id.                 *)
UpstreamTracks ==
    [ t1 |-> [id |-> "t1", name |-> "One", album |-> "a1", artists |-> <<"r1">>],
      t2 |-> [id |-> "t2", name |-> "Two", album |-> "a1", artists |-> <<"r1", "r2">>],
      t3 |-> [id |-> "t3", name |-> "Three", album |-> "a2", artists |-> <<"r2">>],
      t4 |-> [id |-> "t4", name |-> "Four", album |-> "a2", artists |-> <<"r2", "r1">>] ]

UpstreamAlbums ==
    [ a1 |-> [id |-> "a1", name |-> "First", release_date |-> <<2020>>,
              artists |-> <<"r1">>, tracks |-> <<"t1", "t2">>],
      a2 |-> [id |-> "a2", name |-> "Second", release_date |-> <<2021, 5>>,
              artists |-> <<"r2">>, tracks |-> <<"t3", "t4">>] ]

UpstreamArtists ==
    [ r1 |-> [id |-> "r1", name |-> "Ann", genres |-> <<"rock">>],
      r2 |-> [id |-> "r2", name |-> "Bob", genres |-> <<"rock", "jazz">>] ]

(* Bound of the model: the number of dump calls in a behaviour.            *)
MaxDumps == 3

(* The payloads the dumps are given: catalog objects, the same object      *)
(* twice in a batch, an object whose data changed upstream, an artist      *)
(* listed twice, every precision of a release date and a date of no known  *)
(* precision.                                                              *)
TrackPayloads ==
    { <<UpstreamTracks.t1>>,
      <<UpstreamTracks.t1, UpstreamTracks.t2>>,
      <<UpstreamTracks.t2, UpstreamTracks.t2>>,
      <<UpstreamTracks.t3,
        [UpstreamTracks.t1 EXCEPT !.name = "One (remaster)", !.artists = <<"r1", "r1">>]>> }

AlbumPayloads ==
    { <<UpstreamAlbums.a1>>,
      <<UpstreamAlbums.a2, UpstreamAlbums.a1>>,
      <<[UpstreamAlbums.a1 EXCEPT !.release_date = <<2020, 3, 7>>]>>,
      <<UpstreamAlbums.a2, [UpstreamAlbums.a1 EXCEPT !.release_date = <<>>],
        UpstreamAlbums.a1>> }

ArtistPayloads ==
    { <<UpstreamArtists.r1>>,
      <<UpstreamArtists.r2, UpstreamArtists.r1>>,
      <<[UpstreamArtists.r1 EXCEPT !.name = "Ann B", !.genres = <<"jazz", "jazz">>]>> }

SavedPayloads ==
    { <<[track |-> UpstreamTracks.t1]>>,
      <<[track |-> UpstreamTracks.t3], [track |-> UpstreamTracks.t1]>>,
      <<[track |-> UpstreamTracks.t2], [track |-> UpstreamTracks.t2]>> }

(* What get_artist_albums returns to dump_artist_albums: the artist's      *)
(* albums, known to the store or not.                                      *)
ArtistAlbumPayloads ==
    { <<[id |-> "a1"]>>, <<[id |-> "a2"], [id |-> "a3"], [id |-> "a2"]>> }

(* How long the upstream takes to answer a page of albums, in ms.          *)
AlbumPageLatencies == {200}

InitStore ==
    /\ InitLimiter
    /\ now = 0
    /\ proc = "running"
    /\ pc = "idle"
    /\ request_log = NoLog
    /\ raised = "none"
    /\ released = <<>>
    /\ restartAt = <<>>
    /\ idles = 0
    /\ InitNoFetch
    /\ InitNoDb
    /\ InitNoCrawl
    /\ InitNoGenre
    /\ tokens = NoTokens

Dump(fn, payload) ==
    /\ dumps < MaxDumps
    /\ store' = ApplyDump(fn, store, payload)
    /\ last_dump' = [fn |-> fn, payload |-> payload, before |-> store]
    /\ dumps' = dumps + 1
    /\ raised' = IF fn = "dump_albums" /\ DumpAlbumsRaises(payload) THEN "ValueError"
                 ELSE "none"
    /\ UNCHANGED <<now, proc, pc, limiterVars, request_log, released, restartAt, idles,
                   fetchVars, crawlVars, genreVars, tokens>>

DumpTracksCall(tracks) == Dump("dump_tracks", tracks)

DumpAlbumsCall(albums) == Dump("dump_albums", albums)

DumpArtistsCall(artists) == Dump("dump_artists", artists)

DumpUserSavedCall(saved_tracks) == Dump("dump_user_saved", saved_tracks)

(* dump_artist_albums(cursor, artist_id) (lines 675-693): get_artist_albums *)
(* fetches the one page of the artist's albums through the limiter, then   *)
(* each album gets its stub.                                               *)
DumpArtistAlbumsCall(albums) ==
    /\ dumps < MaxDumps
    /\ dumps' = dumps + 1
    /\ IF SleepRaises(CapSleeps(now))
       THEN /\ CheckRateLimitRaises
            /\ raised' = "ValueError"
            /\ UNCHANGED <<store, last_dump, upstream_requests>>
       ELSE /\ \E lat \in AlbumPageLatencies : AttemptClock("spot_load", lat, TRUE, lat)
            /\ upstream_requests' = upstream_requests + 1
            /\ store' = ApplyDump("dump_artist_albums", store, albums)
            /\ last_dump' = [fn |-> "dump_artist_albums", payload |-> albums, before |-> store]
            /\ raised' = "none"
    /\ UNCHANGED <<proc, pc, request_log, restartAt, idles, call, result, attempts, backoffs,
                   at_call, crawlVars, genreVars, tokens>>

NextStore ==
    \/ \E tracks \in TrackPayloads : DumpTracksCall(tracks)
    \/ \E albums \in AlbumPayloads : DumpAlbumsCall(albums)
    \/ \E artists \in ArtistPayloads : DumpArtistsCall(artists)
    \/ \E saved_tracks \in SavedPayloads : DumpUserSavedCall(saved_tracks)
    \/ \E albums \in ArtistAlbumPayloads : DumpArtistAlbumsCall(albums)

SpecStore == InitStore /\ [][NextStore]_vars

(* Every row is there once, and no two rows of a table share the key.      *)
KeyUnique(table, key) ==
    \A r \in BagToSet(table) : table[r] = 1 /\ Conflicts(table, r, key) = {r}

KeysUnique(db) ==
    /\ KeyUnique(db.Track, {"id"})
    /\ KeyUnique(db.Album, {"id"})
    /\ KeyUnique(db.Artist, {"id"})
    /\ KeyUnique(db.Genre, {"id"})
    /\ KeyUnique(db.Genre, {"name"})
    /\ KeyUnique(db.TrackArtist, {"track_id", "artist_id"})
    /\ KeyUnique(db.AlbumArtist, {"album_id", "artist_id"})
    /\ KeyUnique(db.ArtistGenre, {"artist_id", "genre_id"})

(* C3: after a dump, applying the same dump with the same payload again    *)
(* leaves every table as it is, with one row per entity id and no          *)
(* relation row twice.                                                     *)
C3_IdempotentUpsert ==
    last_dump.fn # "none" =>
        /\ ApplyDump(last_dump.fn, store, last_dump.payload) = store
        /\ KeysUnique(store)

(* The tables whose rows are entities, and the rows of a table with an id. *)
EntityTables == {"Track", "Album", "Artist"}

RowsWithId(db, table, id) == { r \in BagToSet(db[table]) : r.id = id }

(* The store of the last dump after its first k statements.                *)
AfterStatements(k) ==
    Run(last_dump.before, SubSeq(Statements(last_dump.fn, last_dump.payload), 1, k))

(* The statements the last dump has executed: those before its raise.      *)
Executed ==
    LET statements == Statements(last_dump.fn, last_dump.payload)
    IN  { k \in 1..Len(statements) : \A j \in 1..k : statements[j].op # "RAISE" }

EndpointsExist(db, s) ==
    CASE s.table = "TrackArtist" ->
             /\ RowsWithId(db, "Track", s.row.track_id) # {}
             /\ RowsWithId(db, "Artist", s.row.artist_id) # {}
      [] s.table = "AlbumArtist" ->
             /\ RowsWithId(db, "Album", s.row.album_id) # {}
             /\ RowsWithId(db, "Artist", s.row.artist_id) # {}
      [] s.table = "ArtistGenre" ->
             /\ RowsWithId(db, "Artist", s.row.artist_id) # {}
             /\ \E g \in BagToSet(db.Genre) : g.name = s.row.name
      [] OTHER -> TRUE

(* C17: when a TrackArtist, AlbumArtist or ArtistGenre row is inserted,    *)
(* both entity rows it refers to are already in the store.                 *)
C17_EndpointsBeforeRelation ==
    last_dump.fn # "none" =>
        LET statements == Statements(last_dump.fn, last_dump.payload)
        IN  \A k \in Executed :
                EndpointsExist(AfterStatements(k - 1), statements[k])

(* A dump replaced the stub of an album by its data, and added rows.       *)
C3_Witness ==
    /\ last_dump.fn = "dump_albums"
    /\ raised = "none"
    /\ AlbumRow(last_dump.payload[1].id, "NULL", <<>>) \in BagToSet(last_dump.before.Album)
    /\ BagCardinality(store.Track) > BagCardinality(last_dump.before.Track)
    /\ ApplyDump(last_dump.fn, store, last_dump.payload) = store

----------------------------------------------------------------------------
(* The crawl loop of __main__ (lines 741-858) against an upstream that     *)
(* answers every batch with the catalog's data for the requested ids.      *)

TRACK_SCAN_LIMIT == 50
ALBUM_SCAN_LIMIT == 20
ARTIST_SCAN_LIMIT == 50
BACKFILL_SCAN_LIMIT == 50
TRACK_COMMIT_EVERY == 20
ALBUM_COMMIT_EVERY == 20
ARTIST_COMMIT_EVERY == 1

(* How long the upstream takes to answer a batch, in ms.                   *)
CrawlLatencies == {200}

(* The columns of Artist, as create_tables makes them (lines 353-358).     *)
ArtistColumns == {"id", "name", "popularity", "followers"}

(* What the user may type at "Start at" (line 741).                        *)
StartInputs == {"tracks", "albums", "artists", "genres"}

(* The stores the loop starts from: the first run's dump of the saved      *)
(* tracks (lines 734-736), or the store an earlier run left behind.        *)
SeedStores ==
    { dump_user_saved(EmptyStore, saved_tracks) : saved_tracks \in SavedPayloads }
        \cup { dump_albums(EmptyStore, <<UpstreamAlbums.a1>>),
               dump_albums(EmptyStore, <<UpstreamAlbums.a2, UpstreamAlbums.a1>>) }

(* SELECT id FROM <table> WHERE name IS NULL                               *)
Incomplete(table) == { r.id : r \in { x \in BagToSet(table) : x.name = "NULL" } }

(* ... LIMIT <limit>, as a list.                                           *)
RECURSIVE Scan(_, _)
Scan(ids, limit) ==
    IF ids = {} \/ limit = 0 THEN <<>>
    ELSE LET id == CHOOSE x \in ids : TRUE
         IN  <<id>> \o Scan(ids \ {id}, limit - 1)

CrawlTable(kind) ==
    IF kind = "tracks" THEN store.Track ELSE IF kind = "albums" THEN store.Album
    ELSE store.Artist

(* Scans that all take the LIMIT of the Tracks scan.                       *)
ScanLimitOfTracks(kind) == TRACK_SCAN_LIMIT

(* The LIMIT of a kind's scan (lines 750, 774, 798).                       *)
ScanLimit(kind) ==
    IF kind = "tracks" THEN TRACK_SCAN_LIMIT ELSE IF kind = "albums" THEN ALBUM_SCAN_LIMIT
    ELSE ARTIST_SCAN_LIMIT

ItemType(kind) ==
    IF kind = "tracks" THEN "track" ELSE IF kind = "albums" THEN "album" ELSE "artist"

NextTypeSkippingAlbums(kind) ==
    IF kind = "tracks" THEN "artists" ELSE IF kind = "albums" THEN "artists" ELSE "tracks"

(* check_type once the kind's queue is empty (lines 760, 784, 808).        *)
NextType(kind) ==
    IF kind = "tracks" THEN "albums" ELSE IF kind = "albums" THEN "artists" ELSE "tracks"

(* The part of the outer loop that follows the kind's inner loop.          *)
NextStage(kind) ==
    IF kind = "tracks" THEN "albums" ELSE IF kind = "albums" THEN "artists" ELSE "backfill"

(* The dump function of a kind's loop (lines 756, 780, 804).               *)
DumpFn(kind) ==
    IF kind = "tracks" THEN "dump_tracks" ELSE IF kind = "albums" THEN "dump_albums"
    ELSE "dump_artists"

(* What the upstream answers to a batch of ids (lines 755, 779, 803).      *)
Answer(kind, ids) ==
    IF kind = "tracks" THEN [i \in 1..Len(ids) |-> UpstreamTracks[ids[i]]]
    ELSE IF kind = "albums" THEN [i \in 1..Len(ids) |-> UpstreamAlbums[ids[i]]]
    ELSE [i \in 1..Len(ids) |-> UpstreamArtists[ids[i]]]

(* The batch the upstream answers and its dump (lines 755-756, 779-780,    *)
(* 803-804).                                                               *)
DumpBatch(kind, db, ids) == ApplyDump(DumpFn(kind), db, Answer(kind, ids))

InitCrawl ==
    \E prior \in 0..MaxPrior, seed \in SeedStores, start \in StartInputs,
       backfill \in BOOLEAN :
        LET stamps == [i \in 1..prior |-> (i - 1) * BASE_WAIT_MIN]
        IN  /\ halfmin_timestamps = stamps
            /\ hourly_timestamps = stamps
            /\ daily_timestamps = stamps
            /\ response_times = <<>>
            /\ base_wait = BASE_WAIT_MIN
            /\ total_requests = prior
            /\ released = [i \in 1..prior |-> i * BASE_WAIT_MIN]
            /\ now = prior * BASE_WAIT_MIN
            /\ proc = "running"
            /\ pc = "idle"
            /\ request_log = NoLog
            /\ raised = "none"
            /\ restartAt = <<>>
            /\ idles = 0
            /\ call = NoCall
            /\ result = "pending"
            /\ attempts = 0
            /\ backoffs = <<>>
            /\ upstream_requests = prior
            /\ at_call = <<>>
            /\ store = seed
            /\ last_dump = NoDump
            /\ dumps = 0
            /\ crawl_pc = "tracks"
            /\ check_type = start
            /\ check_albums = backfill
            /\ committed = seed
            /\ batch_i = 1
            /\ boundaries = {seed}
            /\ failed_batches = 0
            /\ artist_columns = ArtistColumns
            /\ retrieved_albums = {}
            /\ InitNoGenre
            /\ tokens = NoTokens

(* The artists line 822 selects: retrieved_albums IS 0.                    *)
Unflagged == { r.id : r \in BagToSet(store.Artist) } \ retrieved_albums

(* retrieved_albums after statements ran: INSERT OR REPLACE INTO Artist    *)
(* (line 656) deletes the row of that id and inserts one of the four       *)
(* columns it lists, so every other column is back at its default.         *)
FlagsAfter(statements) ==
    retrieved_albums \
        { statements[i].row.id :
            i \in { n \in 1..Len(statements) : /\ statements[n].op = "REPLACE"
                                                /\ statements[n].table = "Artist" } }

(* The batches between two commits of a kind's loop (lines 762, 786, 810). *)
CommitEvery(kind) ==
    IF kind = "tracks" THEN TRACK_COMMIT_EVERY
    ELSE IF kind = "albums" THEN ALBUM_COMMIT_EVERY ELSE ARTIST_COMMIT_EVERY

(* The store on disk after the pass number batch_i of a kind's loop left   *)
(* db in the connection (lines 762-763, 786-787, 810-811).                 *)
CommittedAfterBatch(kind, db) ==
    IF batch_i % CommitEvery(kind) = 0 THEN db ELSE committed

(* The finally clause (lines 854-858) after an exception left the loop     *)
(* with db in the connection: commit, close, save_request_log.             *)
CrawlAborts(exception, db) ==
    /\ raised' = exception
    /\ crawl_pc' = "exited"
    /\ proc' = "stopped"
    /\ committed' = db
    /\ request_log' = SavedLog'

(* One pass of the inner loop of a kind (lines 747-767, 771-791, 795-815). *)
CrawlStep(kind) ==
    /\ crawl_pc = kind
    /\ LET ids == Scan(Incomplete(CrawlTable(kind)), ScanLimit(kind))
       IN  IF check_type # kind
           THEN /\ crawl_pc' = NextStage(kind)
                /\ batch_i' = 1
                /\ UNCHANGED <<now, limiterVars, released, upstream_requests, store, check_type,
                               result, committed, boundaries, retrieved_albums>>
           ELSE IF Len(ids) > 0
           THEN /\ BatchValidation("spot_load", ItemType(kind), Len(ids)) = "request"
                /\ \E lat \in CrawlLatencies : AttemptClock("spot_load", lat, TRUE, lat)
                /\ upstream_requests' = upstream_requests + 1
                /\ result' = "payload"
                /\ LET dumped == DumpBatch(kind, store, ids)
                   IN  /\ store' = dumped
                       /\ committed' = CommittedAfterBatch(kind, dumped)
                       /\ boundaries' = boundaries \cup {dumped}
                /\ batch_i' = batch_i + 1
                /\ retrieved_albums' = FlagsAfter(Statements(DumpFn(kind), Answer(kind, ids)))
                /\ UNCHANGED <<crawl_pc, check_type>>
           ELSE /\ check_type' = NextType(kind)
                /\ crawl_pc' = NextStage(kind)
                /\ committed' = store
                /\ batch_i' = 1
                /\ UNCHANGED <<now, limiterVars, released, upstream_requests, store, result,
                               boundaries, retrieved_albums>>
    /\ failed_batches' = 0
    /\ UNCHANGED <<proc, pc, request_log, raised, restartAt, idles, call, attempts,
                   backoffs, at_call, last_dump, dumps, check_albums, artist_columns, genreVars, tokens>>

(* check_rate_limit() raises inside the batch's get_batch_info: nothing in *)
(* __main__ catches the ValueError.                                        *)
CrawlLimiterRaises ==
    /\ crawl_pc \in {"tracks", "albums", "artists"}
    /\ check_type = crawl_pc
    /\ Incomplete(CrawlTable(crawl_pc)) # {}
    /\ CheckRateLimitRaises
    /\ CrawlAborts("ValueError", store)
    /\ UNCHANGED <<pc, restartAt, idles, fetchVars, dbVars, check_type, check_albums,
                   batch_i, boundaries, failed_batches, artist_columns, genreVars, tokens,
                   retrieved_albums>>

(* Albums from Artists (lines 818-835): skipped without check_albums;     *)
(* with it, the scan of line 822 fails on a database whose Artist table    *)
(* has no retrieved_albums column, and ends the loop when it finds no      *)
(* artist (lines 830-833).                                                 *)
Backfill ==
    /\ crawl_pc = "backfill"
    /\ UNCHANGED <<now, pc, limiterVars, released, restartAt, idles, fetchVars, dbVars,
                   check_albums, batch_i, boundaries, failed_batches, artist_columns, genreVars, tokens,
                   retrieved_albums>>
    /\ IF ~check_albums
       THEN /\ crawl_pc' = "check"
            /\ UNCHANGED <<raised, proc, request_log, committed, check_type>>
       ELSE IF "retrieved_albums" \notin artist_columns
       THEN /\ CrawlAborts("OperationalError", store)
            /\ UNCHANGED check_type
       ELSE /\ Unflagged = {}
            /\ crawl_pc' = "check"
            /\ check_type' = "tracks"
            /\ committed' = store
            /\ UNCHANGED <<raised, proc, request_log>>

(* Lines 838-850: check_type falls back to tracks; the loop goes round     *)
(* again while a track or an album lacks its data; then line 846 counts    *)
(* the artists by name and by retrieved_albums.                            *)
ConvergenceCheck ==
    /\ crawl_pc = "check"
    /\ UNCHANGED <<now, pc, limiterVars, released, restartAt, idles, fetchVars, dbVars,
                   check_albums, batch_i, boundaries, failed_batches, artist_columns, genreVars, tokens,
                   retrieved_albums>>
    /\ check_type' = IF check_type \in {"tracks", "albums", "artists"} THEN check_type
                     ELSE "tracks"
    /\ IF Incomplete(store.Track) # {} \/ Incomplete(store.Album) # {}
       THEN /\ crawl_pc' = "tracks"
            /\ UNCHANGED <<raised, proc, request_log, committed>>
       ELSE IF "retrieved_albums" \notin artist_columns
       THEN CrawlAborts("OperationalError", store)
       ELSE IF Incomplete(store.Artist) # {} \/ Unflagged # {}
       THEN /\ crawl_pc' = "tracks"
            /\ UNCHANGED <<raised, proc, request_log, committed>>
       ELSE /\ crawl_pc' = "converged"
            /\ proc' = "stopped"
            /\ committed' = store
            /\ request_log' = SavedLog'
            /\ UNCHANGED raised

NextCrawl ==
    \/ \E kind \in {"tracks", "albums", "artists"} : CrawlStep(kind)
    \/ CrawlLimiterRaises
    \/ Backfill
    \/ ConvergenceCheck

SpecCrawl == InitCrawl /\ [][NextCrawl]_vars

(* The loop is sequential code: it takes its next step whenever it has one.*)
SpecCrawlFair == SpecCrawl /\ WF_vars(NextCrawl)

(* C2: with an upstream that answers every batch completely, the crawl     *)
(* loop eventually reaches its converged exit ("All items updated"), from  *)
(* every start state and with the album backfill disabled or enabled.      *)
C2_EventuallyConverged == <>(crawl_pc = "converged")

----------------------------------------------------------------------------
(* A whole run of __main__ (lines 695-859): the first run's seed, the two  *)
(* prompts, the crawl loop with batches that fail, are interrupted or      *)
(* carry an item the dump cannot take, and the ways out: SpecRun.          *)

(* Bound of the model: the fetches that may fail in a row in one loop.     *)
MaxFailures == 3

(* The process ends with no handler in the way (lines 727-742 are outside  *)
(* the try): nothing is committed, the request log is not saved.           *)
Dies(exception) ==
    /\ raised' = exception
    /\ crawl_pc' = "exited"
    /\ proc' = "stopped"
    /\ UNCHANGED <<request_log, committed>>

(* The Artist table of the database the run finds (lines 727-728): a      *)
(* Track table is all line 727 looks for; lines 822, 828 and 846 use a     *)
(* retrieved_albums column that create_tables never makes.                 *)
FoundColumns == { ArtistColumns, ArtistColumns \cup {"retrieved_albums"} }

(* The albums the upstream lists for an artist (get_artist_albums).        *)
ArtistAlbums(artist_id) ==
    IF artist_id = "r1" THEN <<[id |-> "a1"]>> ELSE <<[id |-> "a2"]>>

InitRun ==
    \E prior \in 0..MaxPrior, first_run \in BOOLEAN, seed \in SeedStores,
       columns \in FoundColumns :
        LET stamps == [i \in 1..prior |-> (i - 1) * BASE_WAIT_MIN]
            found == IF first_run THEN EmptyStore ELSE seed
        IN  /\ halfmin_timestamps = stamps
            /\ hourly_timestamps = stamps
            /\ daily_timestamps = stamps
            /\ response_times = <<>>
            /\ base_wait = BASE_WAIT_MIN
            /\ total_requests = prior
            /\ released = [i \in 1..prior |-> i * BASE_WAIT_MIN]
            /\ now = prior * BASE_WAIT_MIN
            /\ proc = "running"
            /\ pc = "idle"
            /\ request_log = IF prior = 0 THEN NoLog ELSE SavedLog
            /\ raised = "none"
            /\ restartAt = <<>>
            /\ idles = 0
            /\ call = NoCall
            /\ result = "pending"
            /\ attempts = 0
            /\ backoffs = <<>>
            /\ upstream_requests = prior
            /\ at_call = <<>>
            /\ store = found
            /\ last_dump = NoDump
            /\ dumps = 0
            /\ crawl_pc = IF first_run THEN "setup" ELSE "prompt"
            /\ check_type = "tracks"
            /\ check_albums = FALSE
            /\ committed = found
            /\ batch_i = 1
            /\ boundaries = {found}
            /\ failed_batches = 0
            /\ artist_columns = IF first_run THEN ArtistColumns ELSE columns
            /\ retrieved_albums = {}
            /\ InitNoGenre
            /\ tokens = NoTokens

(* Lines 733-736 of the first run: get_user_saved, dump_user_saved,        *)
(* commit.  A ValueError out of check_rate_limit is caught by nothing.     *)
SeedFetch(saved_tracks) ==
    /\ crawl_pc = "setup"
    /\ IF SleepRaises(CapSleeps(now))
       THEN /\ CheckRateLimitRaises
            /\ Dies("ValueError")
            /\ UNCHANGED <<upstream_requests, store, boundaries>>
       ELSE /\ \E lat \in CrawlLatencies : AttemptClock("spot_load", lat, TRUE, lat)
            /\ upstream_requests' = upstream_requests + 1
            /\ LET dumped == dump_user_saved(store, saved_tracks)
               IN  /\ store' = dumped
                   /\ committed' = dumped
                   /\ boundaries' = boundaries \cup {dumped}
            /\ crawl_pc' = "prompt"
            /\ UNCHANGED <<raised, proc, request_log>>
    /\ UNCHANGED <<pc, restartAt, idles, call, result, attempts, backoffs, at_call, last_dump,
                   dumps, check_type, check_albums, batch_i, failed_batches, artist_columns, genreVars, tokens,
                   retrieved_albums>>

(* Ctrl-C while get_user_saved waits for its page (line 734): the request  *)
(* is on the limiter's windows, the process ends outside the try.          *)
SeedInterrupted ==
    /\ crawl_pc = "setup"
    /\ \E lat \in CrawlLatencies : AttemptClock("spot_load", lat, FALSE, 0)
    /\ upstream_requests' = upstream_requests + 1
    /\ Dies("KeyboardInterrupt")
    /\ UNCHANGED <<pc, restartAt, idles, call, result, attempts, backoffs, at_call, dbVars,
                   check_type, check_albums, batch_i, boundaries, failed_batches, artist_columns, genreVars, tokens,
                   retrieved_albums>>

(* The two input() calls of lines 741-742.                                 *)
Prompt(start, backfill) ==
    /\ crawl_pc = "prompt"
    /\ check_type' = start
    /\ check_albums' = backfill
    /\ crawl_pc' = "tracks"
    /\ UNCHANGED <<now, proc, pc, limiterVars, released, request_log, raised, restartAt, idles,
                   fetchVars, dbVars, committed, batch_i, boundaries, failed_batches, artist_columns, genreVars, tokens,
                   retrieved_albums>>

(* Ctrl-C at a prompt: input() raises KeyboardInterrupt outside the try.   *)
PromptInterrupted ==
    /\ crawl_pc = "prompt"
    /\ Dies("KeyboardInterrupt")
    /\ UNCHANGED <<now, pc, limiterVars, released, restartAt, idles, fetchVars, dbVars,
                   check_type, check_albums, batch_i, boundaries, failed_batches, artist_columns, genreVars, tokens,
                   retrieved_albums>>

(* A batch whose fetch fails (lines 208-213 return None): the dump is      *)
(* skipped (lines 756, 780, 804), i is counted, the loop samples again.    *)
CrawlBatchFails(kind) ==
    /\ crawl_pc = kind
    /\ check_type = kind
    /\ Incomplete(CrawlTable(kind)) # {}
    /\ failed_batches < MaxFailures
    /\ \E lat \in CrawlLatencies : AttemptClock("spot_load", lat, FALSE, 0)
    /\ upstream_requests' = upstream_requests + 1
    /\ result' = "None"
    /\ committed' = CommittedAfterBatch(kind, store)
    /\ batch_i' = batch_i + 1
    /\ failed_batches' = failed_batches + 1
    /\ UNCHANGED <<proc, pc, request_log, raised, restartAt, idles, call, attempts, backoffs,
                   at_call, dbVars, crawl_pc, check_type, check_albums, boundaries,
                   artist_columns, genreVars, tokens, retrieved_albums>>

(* The statements the dump of a kind's batch executes, in order.           *)
BatchStatements(kind, ids) == Statements(DumpFn(kind), Answer(kind, ids))

(* Ctrl-C while the dump of a fetched batch has executed k statements:     *)
(* except KeyboardInterrupt (line 852), then finally commits what the      *)
(* connection holds (line 855) and saves the request log (line 858).       *)
CrawlBatchInterrupted(kind, k) ==
    /\ crawl_pc = kind
    /\ check_type = kind
    /\ LET ids == Scan(Incomplete(CrawlTable(kind)), ScanLimit(kind))
           statements == BatchStatements(kind, ids)
       IN  /\ Len(ids) > 0
           /\ k < Len(statements)
           /\ \E lat \in CrawlLatencies : AttemptClock("spot_load", lat, TRUE, lat)
           /\ upstream_requests' = upstream_requests + 1
           /\ result' = "payload"
           /\ LET partial == Run(store, SubSeq(statements, 1, k))
              IN  /\ store' = partial
                  /\ CrawlAborts("KeyboardInterrupt", partial)
           /\ retrieved_albums' = FlagsAfter(SubSeq(statements, 1, k))
    /\ UNCHANGED <<pc, restartAt, idles, call, attempts, backoffs, at_call, last_dump, dumps,
                   check_type, check_albums, batch_i, boundaries, failed_batches, artist_columns, genreVars, tokens>>

(* An answer whose item j carries a release date of no known precision.    *)
FaultyAnswer(ids, j) ==
    [i \in 1..Len(ids) |-> IF i = j THEN [UpstreamAlbums[ids[i]] EXCEPT !.release_date = <<>>]
                           ELSE UpstreamAlbums[ids[i]]]

(* dump_albums raises at item j (line 597) after the statements of the     *)
(* items before it; no except clause takes a ValueError, finally commits   *)
(* what the connection holds (line 855).                                   *)
CrawlBatchFaulty(j) ==
    /\ crawl_pc = "albums"
    /\ check_type = "albums"
    /\ LET ids == Scan(Incomplete(store.Album), ALBUM_SCAN_LIMIT)
       IN  /\ j \in 1..Len(ids)
           /\ \E lat \in CrawlLatencies : AttemptClock("spot_load", lat, TRUE, lat)
           /\ upstream_requests' = upstream_requests + 1
           /\ result' = "payload"
           /\ LET partial == dump_albums(store, FaultyAnswer(ids, j))
              IN  /\ store' = partial
                  /\ CrawlAborts("ValueError", partial)
    /\ UNCHANGED <<pc, restartAt, idles, call, attempts, backoffs, at_call, last_dump, dumps,
                   check_type, check_albums, batch_i, boundaries, failed_batches, artist_columns, genreVars, tokens,
                   retrieved_albums>>

(* Lines 826-828 for one artist of the scan of line 822: its albums are    *)
(* fetched and stubbed, its retrieved_albums is set; line 835 commits      *)
(* after the last artist of the scan.  When the page request fails         *)
(* (page_ok = FALSE) get_artist_albums breaks and returns the empty list.  *)
BackfillArtist(page_ok) ==
    /\ crawl_pc = "backfill"
    /\ check_albums
    /\ "retrieved_albums" \in artist_columns
    /\ Unflagged # {}
    /\ \E artist_id \in Unflagged :
           \* the scan has no ORDER BY: any unflagged artist may come first
           IF SleepRaises(CapSleeps(now))
           THEN /\ CheckRateLimitRaises
                /\ CrawlAborts("ValueError", store)
                /\ UNCHANGED <<upstream_requests, store, boundaries, retrieved_albums>>
                /\ UNCHANGED call
           ELSE /\ \E lat \in AlbumPageLatencies :
                      AttemptClock("spot_load", IF page_ok THEN lat ELSE 0, page_ok, lat)
                /\ upstream_requests' = upstream_requests + 1
                /\ LET albums == IF page_ok THEN ArtistAlbums(artist_id) ELSE <<>>
                       dumped == ApplyDump("dump_artist_albums", store, albums)
                   IN  /\ store' = dumped
                       /\ committed' = IF Unflagged = {artist_id} THEN dumped ELSE committed
                       /\ boundaries' = boundaries \cup {dumped}
                       /\ call' = [NoCall EXCEPT !.fn = "get_artist_albums",
                                                 !.variant = "spot_load",
                                                 !.retries = 3, !.retries0 = 3,
                                                 !.items = albums,
                                                 !.upstream_total = Len(ArtistAlbums(artist_id)),
                                                 !.all_ok = page_ok,
                                                 !.outcomes = <<IF page_ok THEN "ok" ELSE "http">>]
                /\ retrieved_albums' = retrieved_albums \cup {artist_id}
                /\ UNCHANGED <<raised, proc, request_log, crawl_pc>>
    /\ UNCHANGED <<pc, restartAt, idles, result, attempts, backoffs, at_call, last_dump,
                   dumps, check_type, check_albums, batch_i, failed_batches, artist_columns, genreVars, tokens>>

(* Ctrl-C between two batches, while the loop scans or the limiter sleeps. *)
CrawlInterrupted ==
    /\ crawl_pc \in {"tracks", "albums", "artists", "backfill", "check"}
    /\ UNCHANGED <<now, pc, limiterVars, released, restartAt, idles, fetchVars, dbVars,
                   check_type, check_albums, batch_i, boundaries, failed_batches, artist_columns, genreVars, tokens,
                   retrieved_albums>>
    /\ CrawlAborts("KeyboardInterrupt", store)

(* Bound of the model: the statements a dump may have executed when it is  *)
(* interrupted.                                                            *)
MaxInterruptAt == 12

StatementIndexes == 0..MaxInterruptAt

NextRun ==
    \/ \E saved_tracks \in SavedPayloads : SeedFetch(saved_tracks)
    \/ SeedInterrupted
    \/ \E start \in StartInputs, backfill \in BOOLEAN : Prompt(start, backfill)
    \/ PromptInterrupted
    \/ \E kind \in {"tracks", "albums", "artists"} : CrawlStep(kind)
    \/ CrawlLimiterRaises
    \/ Backfill
    \/ \E page_ok \in BOOLEAN : BackfillArtist(page_ok)
    \/ ConvergenceCheck
    \/ \E kind \in {"tracks", "albums", "artists"} : CrawlBatchFails(kind)
    \/ \E kind \in {"tracks", "albums", "artists"}, k \in StatementIndexes :
           CrawlBatchInterrupted(kind, k)
    \/ \E j \in 1..ALBUM_SCAN_LIMIT : CrawlBatchFaulty(j)
    \/ CrawlInterrupted

SpecRun == InitRun /\ [][NextRun]_vars

(* __main__ is run again after a run has ended: the connection of the run  *)
(* before is closed and what it had not committed is gone, the limiter's   *)
(* globals are fresh (lines 30-35) and load_request_log restores what the  *)
(* file holds (line 700); line 727 finds the Track table, which was        *)
(* committed at line 730 of the first run, so lines 729-736 are skipped    *)
(* and the run goes on to its prompts.                                     *)
Rerun ==
    /\ proc = "stopped" /\ crawl_pc = "exited"
    /\ Len(restartAt) < MaxRestarts
    /\ restartAt' = Append(restartAt, Len(released))
    /\ proc' = "running"
    /\ pc' = "idle"
    /\ raised' = "none"
    /\ response_times' = <<>>
    /\ base_wait' = BASE_WAIT_MIN
    /\ LET loaded(q) == [i \in 1..Len(q) |-> ParseNumber(q[i])]
           found == request_log.exists /\ request_log.valid
       IN  /\ total_requests' = IF found THEN ParseNumber(request_log.total_requests) ELSE 0
           /\ halfmin_timestamps' = IF found THEN loaded(request_log.halfmin_timestamps) ELSE <<>>
           /\ hourly_timestamps' = IF found THEN loaded(request_log.hourly_timestamps) ELSE <<>>
           /\ daily_timestamps' = IF found THEN loaded(request_log.daily_timestamps) ELSE <<>>
    /\ store' = committed
    /\ crawl_pc' = "prompt"
    /\ batch_i' = 1
    /\ failed_batches' = 0
    /\ UNCHANGED <<now, request_log, released, idles, fetchVars, last_dump, dumps, check_type,
                   check_albums, committed, boundaries, artist_columns, retrieved_albums,
                   genreVars, tokens>>

NextRerun ==
    \/ NextRun
    \/ Rerun

(* Runs of __main__ one after another on the same database: SpecRerun.     *)
SpecRerun == InitRun /\ [][NextRerun]_vars

----------------------------------------------------------------------------
(* The scans of the crawl loop over long queues: a database in which each  *)
(* of Track, Album and Artist holds `n` rows without data, the loop at one *)
(* of its four scans (lines 750, 774, 798, 822), and the fetch the sample  *)
(* is handed to.  The dump that follows the fetch is that of SpecRun.      *)

MaxQueue == 51

InitScan ==
    \E n \in {0, 1, ALBUM_SCAN_LIMIT, ALBUM_SCAN_LIMIT + 1, TRACK_SCAN_LIMIT, MaxQueue},
       at \in {"tracks", "albums", "artists", "backfill"} :
        LET found == [EmptyStore EXCEPT
                        !.Track = SetToBag({TrackRow(i, "NULL", "NULL") : i \in 1..n}),
                        !.Album = SetToBag({AlbumRow(i, "NULL", <<>>) : i \in 1..n}),
                        !.Artist = SetToBag({ArtistRow(i, "NULL") : i \in 1..n})]
        IN  /\ InitLimiter
            /\ now = 0
            /\ proc = "running"
            /\ pc = "idle"
            /\ request_log = NoLog
            /\ raised = "none"
            /\ released = <<>>
            /\ restartAt = <<>>
            /\ idles = 0
            /\ InitNoFetch
            /\ store = found
            /\ last_dump = NoDump
            /\ dumps = 0
            /\ crawl_pc = at
            /\ check_type = IF at = "backfill" THEN "genres" ELSE at
            /\ check_albums = (at = "backfill")
            /\ committed = found
            /\ batch_i = 1
            /\ boundaries = {found}
            /\ failed_batches = 0
            /\ artist_columns = ArtistColumns \cup {"retrieved_albums"}
            /\ retrieved_albums = {}
            /\ InitNoGenre
            /\ tokens = NoTokens

(* The scan of a kind's loop and the call of get_batch_info with the       *)
(* sample (lines 750-755, 774-779, 798-803).                               *)
ScanBatch(kind) ==
    /\ crawl_pc = kind
    /\ check_type = kind
    /\ LET ids == Scan(Incomplete(CrawlTable(kind)), ScanLimit(kind))
       IN  /\ Len(ids) > 0
           /\ CallGetBatchInfo("spot_load", ItemType(kind), Len(ids), 3)

(* The scan of the backfill loop and the call of get_artist_albums for the *)
(* first artist of the sample (lines 822-827, 687); n_ids is the length of *)
(* the sample the call belongs to.                                         *)
ScanBackfill(upstream_total) ==
    /\ crawl_pc = "backfill"
    /\ check_albums
    /\ "retrieved_albums" \in artist_columns
    /\ pc = "idle"
    /\ LET ids == Scan(Unflagged, BACKFILL_SCAN_LIMIT)
       IN  /\ Len(ids) > 0
           /\ BeginCall([NoCall EXCEPT !.fn = "get_artist_albums", !.variant = "spot_load",
                                       !.n_ids = Len(ids),
                                       !.retries = 3, !.retries0 = 3,
                                       !.offset = 0, !.total = PAGE_LIMIT + 1, !.items = <<>>,
                                       !.upstream_total = upstream_total])
    /\ pc' = "attempt"
    /\ UNCHANGED <<result, raised>>

NextScan ==
    \/ \E kind \in {"tracks", "albums", "artists"} : ScanBatch(kind)
    \/ \E t \in Totals : ScanBackfill(t)
    \/ \E o \in FetchOutcomes : FetchAttempt(o)
    \/ \E o \in FetchOutcomes : PageAttempt(o)
    \/ AttemptLimiterRaises

SpecScan == InitScan /\ [][NextScan]_vars

----------------------------------------------------------------------------
(* get_token of spot_access.py (107-158) and of the draft spotifyload.py   *)
(* (97-149).  `tokens` holds the two files: whether each exists, the       *)
(* mtime of the access token file (ms) and the token it holds; `attempts`  *)
(* counts the calls of get_token, `upstream_requests` the requests to the  *)
(* provider.                                                               *)

(* `if token_age < 3540` (spot_access.py:121), `< 3600` (spotifyload.py:   *)
(* 113), in seconds.                                                       *)
TOKEN_MAX_AGE == 3540
DRAFT_TOKEN_MAX_AGE == 3600

MaxTokenCalls == 3
MaxTokenTicks == 3

InitToken ==
    \E variant \in Variants, cached \in BOOLEAN, refresh \in BOOLEAN :
        /\ InitLimiter
        /\ now = 0
        /\ proc = "running"
        /\ pc = "idle"
        /\ request_log = NoLog
        /\ raised = "none"
        /\ released = <<>>
        /\ restartAt = <<>>
        /\ idles = 0
        /\ call = [NoCall EXCEPT !.fn = "get_token", !.variant = variant]
        /\ result = "pending"
        /\ attempts = 0
        /\ backoffs = <<>>
        /\ upstream_requests = 0
        /\ at_call = <<>>
        /\ InitNoDb
        /\ InitNoCrawl
        /\ InitNoGenre
        /\ tokens = [NoTokens EXCEPT !.access_exists = cached,
                                     !.access_token = IF cached THEN "cached" ELSE "none",
                                     !.refresh_exists = refresh]

(* One call of get_token; `o` is the provider's answer, if it is asked: a  *)
(* token ("ok"), a JSON body without access_token, an HTTP error.          *)
GetToken(o) ==
    /\ attempts < MaxTokenCalls
    /\ attempts' = attempts + 1
    /\ LET token_age == now - tokens.access_mtime
           max_age == IF call.variant = "spotifyload" THEN DRAFT_TOKEN_MAX_AGE
                      ELSE TOKEN_MAX_AGE
       IN  IF tokens.access_exists /\ token_age < max_age * 1000
           THEN /\ result' = tokens.access_token
                /\ raised' = "none"
                /\ UNCHANGED <<tokens, upstream_requests>>
           ELSE IF ~tokens.refresh_exists
           THEN /\ raised' = "FileNotFoundError"
                /\ result' = "pending"
                /\ UNCHANGED <<tokens, upstream_requests>>
           ELSE /\ upstream_requests' = upstream_requests + 1
                /\ raised' = "none"
                /\ IF o = "ok"
                   THEN /\ tokens' = [tokens EXCEPT !.access_exists = TRUE,
                                                    !.access_mtime = now,
                                                    !.access_token = "issued"]
                        \* the draft writes the file and falls off the end
                        /\ result' = IF call.variant = "spotifyload" THEN "None"
                                     ELSE "issued"
                   ELSE /\ result' = "None"
                        /\ UNCHANGED tokens
    /\ UNCHANGED <<now, proc, pc, limiterVars, request_log, released, restartAt, idles, call,
                   backoffs, at_call, dbVars, crawlVars, genreVars>>

(* Time passes between two calls.                                          *)
TokenTick(seconds) ==
    /\ idles < MaxTokenTicks
    /\ idles' = idles + 1
    /\ now' = now + seconds * 1000
    /\ UNCHANGED <<proc, pc, limiterVars, request_log, raised, released, restartAt,
                   fetchVars, dbVars, crawlVars, genreVars, tokens>>

NextToken ==
    \/ \E o \in {"ok", "no_token", "http"} : GetToken(o)
    \/ \E seconds \in {1, 60, TOKEN_MAX_AGE - 1} : TokenTick(seconds)

SpecToken == InitToken /\ [][NextToken]_vars

----------------------------------------------------------------------------
(* musicbrainz_load.py: get_artist_data_batch looks the artists of a batch *)
(* up one by one, in one thread, and shares the deque timestamps between   *)
(* its calls: SpecMb.  released holds the instants at which requests.get   *)
(* was called, artist_list the artists of the call still to look up.       *)

MB_WINDOW == 1000
MB_RETRIES == 5

(* Bounds of the model: the requests of a run, the calls of a run.         *)
MaxMbRequests == 6
MaxMbCalls == 2

(* What requests.get meets: <<outcome, ms until it is known, the ms of     *)
(* random.uniform(0, 1)>>.  "undecodable" is a 2xx response whose body is  *)
(* no JSON: raise_for_status passes, response.json() raises.               *)
MbOutcomes ==
    { <<"ok", 1, 0>>, <<"ok", 400, 0>>, <<"failed", 1, 0>>, <<"failed", 400, 999>>,
      <<"undecodable", 1, 0>> }

(* while timestamps and cur_time - timestamps[0] > 1: popleft (24-25).     *)
RECURSIVE MbEvict(_, _)
MbEvict(q, cur_time) ==
    IF q # <<>> /\ cur_time - Head(q) > MB_WINDOW THEN MbEvict(Tail(q), cur_time) ELSE q

(* A retry wait that starts from nothing.                                  *)
MbBackoffFromZero(attempt, jitter) == (2 ^ attempt - 1) * 1000 + jitter

(* wait_time = 2 ** attempt + random.uniform(0, 1) (line 57).              *)
MbBackoff(attempt, jitter) == (2 ^ attempt) * 1000 + jitter

InitMb ==
    /\ InitLimiter
    /\ now = 0
    /\ proc = "running"
    /\ request_log = NoLog
    /\ pc = "returned"
    /\ raised = "none"
    /\ released = <<>>
    /\ restartAt = <<>>
    /\ idles = 0
    /\ InitNoFetch
    /\ InitNoDb
    /\ InitNoCrawl
    /\ InitNoGenre
    /\ tokens = NoTokens

(* __main__ calls get_artist_data_batch with the names of a batch (line    *)
(* 123), some time after the call before it returned (lines 125-126).      *)
MbCall(n, gap) ==
    /\ proc = "running" /\ pc = "returned"
    /\ idles < MaxMbCalls
    /\ idles' = idles + 1
    /\ now' = now + gap
    /\ artist_list' = n
    /\ pc' = "artist"
    /\ UNCHANGED <<proc, limiterVars, request_log, raised, released, restartAt, fetchVars,
                   dbVars, crawlVars, timestamps, workers, genre_requests, tokens>>

(* The head of the for loop (lines 20-27): evict, then sleep until the     *)
(* oldest retained timestamp is 1 s old; time.sleep raises ValueError on   *)
(* a negative argument.                                                    *)
MbLimit ==
    /\ proc = "running" /\ pc = "artist"
    /\ upstream_requests < MaxMbRequests
    /\ LET cur_time == now
           kept == MbEvict(timestamps, cur_time)
           sleep == IF Len(kept) >= 1 THEN MB_WINDOW - (cur_time - kept[1]) ELSE 0
       IN  /\ timestamps' = kept
           /\ IF sleep < 0
              THEN /\ raised' = "ValueError"
                   /\ proc' = "stopped"
                   /\ UNCHANGED <<now, pc, attempts>>
              ELSE /\ now' = now + sleep
                   /\ attempts' = 0
                   /\ pc' = "request"
                   /\ UNCHANGED <<proc, raised>>
    /\ UNCHANGED <<limiterVars, request_log, released, restartAt, idles, call, result,
                   backoffs, upstream_requests, at_call, dbVars, crawlVars, workers,
                   artist_list, genre_requests, tokens>>

(* One pass of the retry loop (lines 31-59): the request; a success is     *)
(* stamped at the time of the response and ends the loop; a failure is     *)
(* followed by the backoff sleep, after the last attempt too.              *)
MbRequest(o, lat, jitter) ==
    /\ proc = "running" /\ pc = "request"
    /\ upstream_requests < MaxMbRequests
    /\ released' = Append(released, now)
    /\ upstream_requests' = upstream_requests + 1
    /\ timestamps' = IF o = "failed" THEN timestamps ELSE Append(timestamps, now + lat)
    /\ IF o = "ok"
       THEN /\ now' = now + lat
            /\ attempts' = attempts
            /\ artist_list' = artist_list - 1
            /\ pc' = IF artist_list = 1 THEN "returned" ELSE "artist"
       ELSE /\ now' = now + lat + MbBackoff(attempts, jitter)
            /\ attempts' = attempts + 1
            /\ IF attempts + 1 < MB_RETRIES
               THEN /\ pc' = "request"
                    /\ artist_list' = artist_list
               ELSE /\ artist_list' = artist_list - 1
                    /\ pc' = IF artist_list = 1 THEN "returned" ELSE "artist"
    /\ UNCHANGED <<proc, limiterVars, request_log, raised, restartAt, idles, call, result,
                   backoffs, at_call, dbVars, crawlVars, workers, genre_requests, tokens>>

NextMb ==
    \/ \E n \in {1, 2}, gap \in {0, 700, 2000} : MbCall(n, gap)
    \/ MbLimit
    \/ \E o \in MbOutcomes : MbRequest(o[1], o[2], o[3])

SpecMb == InitMb /\ [][NextMb]_vars

----------------------------------------------------------------------------
(* lastfm.py: fetch_genres_parallel runs get_genre on a pool of workers    *)
(* that share the deque timestamps with no lock: SpecGenre.  A step is     *)
(* what one worker does between two points where the interpreter may       *)
(* switch threads.                                                         *)

GENRE_WINDOW == 1000
GENRE_CAP == 5

(* Bounds of the model: the artists of the list, the end of the clock.     *)
MaxArtists == 6
MaxGenreTime == 1200

(* How far the clock moves between two steps, in ms.                       *)
GenreTicks == {600}

InitGenre ==
    /\ InitLimiter
    /\ now = 0
    /\ proc = "running"
    /\ pc = "idle"
    /\ request_log = NoLog
    /\ raised = "none"
    /\ released = <<>>
    /\ restartAt = <<>>
    /\ idles = 0
    /\ InitNoFetch
    /\ InitNoDb
    /\ InitNoCrawl
    /\ timestamps = <<>>
    /\ workers = [w \in {IdleWorker} |-> MAX_WORKERS]
    /\ artist_list \in 1..MaxArtists
    /\ genre_requests = <<>>
    /\ tokens = NoTokens

OtherVars ==
    <<proc, pc, limiterVars, released, request_log, raised, restartAt, idles, fetchVars, dbVars,
      crawlVars, tokens>>

(* The frame of a step that moves a worker from where it is, w, to `next`. *)
WorkerGoes(w, next) ==
    /\ workers' = (workers (-) SetToBag({w})) (+) SetToBag({next})
    /\ UNCHANGED <<now, OtherVars>>

(* executor.map hands the worker an artist; line 16 reads the clock and    *)
(* line 18 tests `timestamps` for emptiness.                               *)
Take(w) ==
    /\ BagIn(w, workers)
    /\ w.pc = "idle"
    /\ artist_list > 0
    /\ artist_list' = artist_list - 1
    /\ WorkerGoes(w, [pc |-> IF timestamps = <<>> THEN "occupancy" ELSE "oldest",
                      cur_time |-> now, wake_at |-> 0])
    /\ UNCHANGED <<timestamps, genre_requests>>

(* Line 18, second operand: cur_time - timestamps[0] > 1.  timestamps[0]   *)
(* of an empty deque raises IndexError.                                    *)
ReadOldest(w) ==
    /\ BagIn(w, workers)
    /\ w.pc = "oldest"
    /\ WorkerGoes(w, [w EXCEPT !.pc =
           IF timestamps = <<>> THEN "IndexError"
           ELSE IF w.cur_time - timestamps[1] > GENRE_WINDOW THEN "popleft"
           ELSE "occupancy"])
    /\ UNCHANGED <<timestamps, artist_list, genre_requests>>

(* Line 19: popleft, of an empty deque IndexError; then line 18 tests      *)
(* `timestamps` again.                                                     *)
PopLeft(w) ==
    /\ BagIn(w, workers)
    /\ w.pc = "popleft"
    /\ IF timestamps = <<>>
       THEN /\ WorkerGoes(w, [w EXCEPT !.pc = "IndexError"])
            /\ UNCHANGED timestamps
       ELSE /\ timestamps' = Tail(timestamps)
            /\ WorkerGoes(w, [w EXCEPT !.pc =
                   IF Tail(timestamps) = <<>> THEN "occupancy" ELSE "oldest"])
    /\ UNCHANGED <<artist_list, genre_requests>>

(* Line 21: len(timestamps) >= 5.                                          *)
Occupancy(w) ==
    /\ BagIn(w, workers)
    /\ w.pc = "occupancy"
    /\ WorkerGoes(w, [w EXCEPT !.pc =
           IF Len(timestamps) >= GENRE_CAP THEN "sleep" ELSE "request"])
    /\ UNCHANGED <<timestamps, artist_list, genre_requests>>

(* Line 22: time.sleep(1 - (cur_time - timestamps[0])); IndexError on an   *)
(* empty deque, ValueError on a negative number.                           *)
Sleep(w) ==
    /\ BagIn(w, workers)
    /\ w.pc = "sleep"
    /\ WorkerGoes(w,
           IF timestamps = <<>> THEN [w EXCEPT !.pc = "IndexError"]
           ELSE LET wait == GENRE_WINDOW - (w.cur_time - timestamps[1])
                IN  IF wait < 0 THEN [w EXCEPT !.pc = "ValueError"]
                    ELSE [w EXCEPT !.pc = "request", !.wake_at = now + wait])
    /\ UNCHANGED <<timestamps, artist_list, genre_requests>>

(* Line 34: requests.get, once the sleep of line 22 is over.               *)
Request(w) ==
    /\ BagIn(w, workers)
    /\ w.pc = "request"
    /\ now >= w.wake_at
    /\ genre_requests' = Append(genre_requests, now)
    /\ WorkerGoes(w, [w EXCEPT !.pc = "response"])
    /\ UNCHANGED <<timestamps, artist_list>>

(* Lines 38-59: the answer arrives, line 55 appends time.time(), the       *)
(* worker returns and is free for the next artist.                         *)
Response(w) ==
    /\ BagIn(w, workers)
    /\ w.pc = "response"
    /\ timestamps' = Append(timestamps, now)
    /\ WorkerGoes(w, IdleWorker)
    /\ UNCHANGED <<artist_list, genre_requests>>

(* Time passes.                                                            *)
GenreTick ==
    /\ \E tick \in GenreTicks : /\ now + tick <= MaxGenreTime
                                /\ now' = now + tick
    /\ UNCHANGED <<OtherVars, genreVars>>

NextGenre ==
    \/ \E w \in BagToSet(workers) : Take(w)
    \/ \E w \in BagToSet(workers) : ReadOldest(w)
    \/ \E w \in BagToSet(workers) : PopLeft(w)
    \/ \E w \in BagToSet(workers) : Occupancy(w)
    \/ \E w \in BagToSet(workers) : Sleep(w)
    \/ \E w \in BagToSet(workers) : Request(w)
    \/ \E w \in BagToSet(workers) : Response(w)
    \/ GenreTick

SpecGenre == InitGenre /\ [][NextGenre]_vars

----------------------------------------------------------------------------
(* lastfm.py, the loop of __main__ (lines 96-120) and what each get_genre  *)
(* of a batch returns: SpecEnrich.  executor.map yields the results in the *)
(* order of artist_list whatever the order in which the workers finish     *)
(* (line 72), so the calls of a batch are taken one after another here;    *)
(* the workers' races on timestamps are SpecGenre's.  call.items holds the *)
(* results of the batch so far.                                            *)

GENRE_RETRIES == 3
GENRE_RETRY_SLEEP == 2000
GENRE_SCAN_LIMIT == 50

(* What get_genre returns: a list of genre names, or None.                 *)
Genres(names) == [none |-> FALSE, genres |-> names]
None == [none |-> TRUE, genres |-> <<>>]

(* What an attempt of get_genre meets (lines 34-38, 57).                   *)
GenreOutcomes == {"tags", "no_tags", "failed", "undecodable"}

(* SELECT id, name FROM Artist WHERE id NOT IN (SELECT DISTINCT artist_id  *)
(* FROM ArtistGenre) (lines 97-101, 114-117).                              *)
WithoutGenre(db) ==
    { r.id : r \in BagToSet(db.Artist) } \ { g.artist_id : g \in BagToSet(db.ArtistGenre) }

(* The databases the loop finds: saved tracks with their artist stubs, and *)
(* artists the crawl has filled in, with genres or without.                *)
EnrichStores ==
    { dump_artists(dump_user_saved(EmptyStore, saved_tracks), artists) :
          saved_tracks \in SavedPayloads,
          artists \in { <<>>, <<UpstreamArtists.r1>>,
                        <<[UpstreamArtists.r2 EXCEPT !.genres = <<>>]>> } }

(* save_genres_to_db (lines 75-89): the Genre inserts, then the ArtistGenre *)
(* inserts, of the pairs of zip(artist_data, genre_data).                  *)
SaveGenreStatements(artist_data, genre_data) ==
    LET n == IF Len(artist_data) <= Len(genre_data) THEN Len(artist_data) ELSE Len(genre_data)
        links == [i \in 1..n |-> GenreLinks(artist_data[i], genre_data[i].genres)]
        RECURSIVE Pick(_, _)
        Pick(i, k) == IF i > n THEN <<>>
                      ELSE (IF Len(links[i]) >= k THEN <<links[i][k]>> ELSE <<>>) \o Pick(i + 1, k)
    IN  Pick(1, 1) \o Pick(1, 2)

InitEnrich ==
    /\ InitLimiter
    /\ now = 0
    /\ proc = "running"
    /\ request_log = NoLog
    /\ pc = "scan"
    /\ raised = "none"
    /\ released = <<>>
    /\ restartAt = <<>>
    /\ idles = 0
    /\ InitNoFetch
    /\ \E db \in EnrichStores : store = db /\ committed = db /\ boundaries = {db}
    /\ last_dump = NoDump
    /\ dumps = 0
    /\ crawl_pc = "off"
    /\ check_type = "tracks"
    /\ check_albums = FALSE
    /\ batch_i = 1
    /\ failed_batches = 0
    /\ artist_columns = ArtistColumns
    /\ retrieved_albums = {}
    /\ InitNoGenre
    /\ tokens = NoTokens

(* The head of the while loop (lines 97-109): the scan, the way out when   *)
(* it is empty, else fetch_genres_parallel is called.                      *)
EnrichScan ==
    /\ proc = "running" /\ pc = "scan"
    /\ LET artist_batch == Scan(WithoutGenre(store), GENRE_SCAN_LIMIT)
       IN  IF artist_batch = <<>>
           THEN /\ pc' = "updated"
                /\ proc' = "stopped"
                /\ UNCHANGED <<call, artist_list>>
           ELSE /\ pc' = "get_genre"
                /\ call' = [NoCall EXCEPT !.fn = "fetch_genres_parallel"]
                /\ artist_list' = Len(artist_batch)
                /\ UNCHANGED proc
    /\ UNCHANGED <<now, limiterVars, request_log, raised, released, restartAt, idles, result,
                   attempts, backoffs, upstream_requests, at_call, dbVars, crawlVars,
                   timestamps, workers, genre_requests, tokens>>

(* The head of get_genre (lines 16-22) in a pool with nothing else at      *)
(* work.                                                                   *)
GenreLimit ==
    /\ proc = "running" /\ pc = "get_genre"
    /\ LET cur_time == now
           kept == Evict(timestamps, cur_time, GENRE_WINDOW)
       IN  /\ timestamps' = kept
           /\ now' = IF Len(kept) >= GENRE_CAP THEN now + (GENRE_WINDOW - (cur_time - kept[1]))
                     ELSE now
    /\ attempts' = 0
    /\ pc' = "request"
    /\ UNCHANGED <<proc, limiterVars, request_log, raised, released, restartAt, idles, call,
                   result, backoffs, upstream_requests, at_call, dbVars, crawlVars, workers,
                   artist_list, genre_requests, tokens>>

(* One pass of the for loop of get_genre (lines 32-67), and the return of  *)
(* the call when the pass ends it: with the top tag or "unknown", or, when *)
(* the loop runs out of attempts at line 53, with nothing.                 *)
GenreAttempt(o, lat) ==
    /\ proc = "running" /\ pc = "request"
    /\ attempts < GENRE_RETRIES
    /\ upstream_requests' = upstream_requests + 1
    /\ genre_requests' = Append(genre_requests, now)
    /\ timestamps' = IF o \in {"tags", "no_tags"} THEN Append(timestamps, now + lat)
                     ELSE timestamps
    /\ LET last == attempts = GENRE_RETRIES - 1
           returns == o \in {"tags", "no_tags"} \/ last
           value == CASE o = "tags" -> Genres(<<"rock">>)
                      [] o = "no_tags" -> Genres(<<"unknown">>)
                      [] o = "failed" -> Genres(<<"unknown">>)
                      [] OTHER -> None
       IN  /\ now' = now + lat + (IF o = "undecodable" \/ (o = "failed" /\ ~last)
                                  THEN GENRE_RETRY_SLEEP ELSE 0)
           /\ IF returns
              THEN /\ call' = [call EXCEPT !.items = Append(@, value)]
                   /\ attempts' = 0
                   /\ pc' = IF Len(call.items) + 1 = artist_list THEN "save" ELSE "get_genre"
              ELSE /\ attempts' = attempts + 1
                   /\ UNCHANGED <<call, pc>>
    /\ UNCHANGED <<proc, limiterVars, request_log, raised, released, restartAt, idles, result,
                   backoffs, at_call, dbVars, crawlVars, workers, artist_list, tokens>>

(* save_genres_to_db and the commit (lines 111-112).  Iterating a result   *)
(* that is None raises TypeError at line 81, before anything is executed;  *)
(* __main__ catches KeyboardInterrupt alone (line 124).                    *)
SaveGenres ==
    /\ proc = "running" /\ pc = "save"
    /\ LET artist_batch == Scan(WithoutGenre(store), GENRE_SCAN_LIMIT)
           genre_results == call.items
       IN  IF \E i \in 1..Len(genre_results) : genre_results[i].none
           THEN /\ raised' = "TypeError"
                /\ proc' = "stopped"
                /\ pc' = "exited"
                /\ UNCHANGED <<store, committed, boundaries>>
           ELSE /\ store' = Run(store, SaveGenreStatements(artist_batch, genre_results))
                /\ committed' = store'
                /\ boundaries' = boundaries \cup {store'}
                /\ pc' = "scan"
                /\ UNCHANGED <<raised, proc>>
    /\ UNCHANGED <<now, limiterVars, request_log, released, restartAt, idles, fetchVars,
                   last_dump, dumps, crawl_pc, check_type, check_albums, batch_i,
                   failed_batches, artist_columns, retrieved_albums, genreVars, tokens>>

NextEnrich ==
    \/ EnrichScan
    \/ GenreLimit
    \/ \E o \in GenreOutcomes, lat \in {150} : GenreAttempt(o, lat)
    \/ SaveGenres

SpecEnrich == InitEnrich /\ [][NextEnrich]_vars

(* No six requests within one window.                                      *)
GenreCapRespected ==
    \A i \in 1..Len(genre_requests) :
        i + GENRE_CAP <= Len(genre_requests) =>
            genre_requests[i + GENRE_CAP] - genre_requests[i] >= GENRE_WINDOW

(* C20: under every interleaving of the workers no more than 5 requests    *)
(* are issued within a second, and no worker fails on a deque another      *)
(* worker emptied under it.                                                *)
C20_WindowIsCriticalSection ==
    /\ GenreCapRespected
    /\ \A w \in BagToSet(workers) : w.pc \notin {"IndexError", "ValueError"}

----------------------------------------------------------------------------
(* Properties of the run.                                                  *)

(* No row of the three entity tables lacks its name.                       *)
AllNamed(db) ==
    Incomplete(db.Track) = {} /\ Incomplete(db.Album) = {} /\ Incomplete(db.Artist) = {}

(* C11: the check at the end of a cycle ends the run as converged exactly  *)
(* when no track, album or artist lacks its name and, with the backfill    *)
(* enabled only, every artist carries a set albums-retrieved flag.         *)
C11_ConvergedIffComplete ==
    [][(crawl_pc = "check" /\ raised' # "KeyboardInterrupt") =>
          (crawl_pc' = "converged" <=>
              /\ AllNamed(store)
              /\ check_albums => ("retrieved_albums" \in artist_columns /\ Unflagged = {}))]_vars

CrawlKinds == {"tracks", "albums", "artists"}

KindTable(kind) ==
    IF kind = "tracks" THEN "Track" ELSE IF kind = "albums" THEN "Album" ELSE "Artist"

(* The ids of a table whose row has its name.                              *)
Named(db, table) == { r.id : r \in { x \in BagToSet(db[table]) : x.name # "NULL" } }

(* C12: in the state of a kind the loops of the other kinds do nothing;    *)
(* on an empty sample check_type becomes the next of tracks -> albums ->   *)
(* artists -> tracks with no fetch and no write; on a non-empty sample     *)
(* one batch is fetched, the state stays, the batch is either left as it   *)
(* was (a failed fetch) or every sampled row gets its name, and no row of  *)
(* another kind gets its name.                                             *)
C12_TransitionRule ==
    [][\A kind \in CrawlKinds :
          (crawl_pc = kind /\ crawl_pc' # "exited") =>
              IF check_type # kind
              THEN /\ store' = store
                   /\ check_type' = check_type
                   /\ upstream_requests' = upstream_requests
              ELSE IF Incomplete(store[KindTable(kind)]) = {}
              THEN /\ check_type' = CASE kind = "tracks" -> "albums"
                                      [] kind = "albums" -> "artists"
                                      [] kind = "artists" -> "tracks"
                   /\ crawl_pc' # kind
                   /\ store' = store
                   /\ upstream_requests' = upstream_requests
              ELSE /\ check_type' = kind
                   /\ crawl_pc' = kind
                   /\ upstream_requests' = upstream_requests + 1
                   /\ \/ store' = store
                      \/ Incomplete(store[KindTable(kind)]) \cap
                             Incomplete(store'[KindTable(kind)]) = {}
                   /\ \A other \in CrawlKinds \ {kind} :
                          Named(store', KindTable(other)) = Named(store, KindTable(other))]_vars

(* The loop went from tracks through albums to artists, a batch at a time. *)
C12_Witness ==
    /\ proc = "running"
    /\ crawl_pc = "artists"
    /\ check_type = "artists"
    /\ result = "payload"
    /\ batch_i > 1
    /\ store.Track # EmptyBag
    /\ store.Album # EmptyBag
    /\ Incomplete(store.Track) = {}
    /\ Incomplete(store.Album) = {}

(* C13: what is committed is the store as it stood between two batches,    *)
(* also after a dump that failed part-way, and each batch that was dumped  *)
(* is committed before the next is fetched.                                *)
C13_BatchIsOneTransaction ==
    /\ raised # "KeyboardInterrupt" => committed \in boundaries
    /\ (crawl_pc \in CrawlKinds /\ result = "payload" /\ batch_i > 1) => committed = store

(* C14: after an interrupt, what is committed is the store as it stood     *)
(* between two batches.                                                    *)
C14_InterruptKeepsBatchesWhole ==
    raised = "KeyboardInterrupt" => committed \in boundaries

(* C15: once the process has stopped, the saved request log holds the      *)
(* counter and the windows of the limiter.                                 *)
C15_LogSavedOnEveryExit ==
    proc = "stopped" => request_log = SavedLog

(* C18: a row that has its name keeps it, and an artist whose              *)
(* retrieved_albums is set keeps it set.                                   *)
C18_CompleteStaysComplete ==
    [][/\ \A table \in {"Track", "Album", "Artist"} :
              Named(store, table) \subseteq Named(store', table)
       /\ retrieved_albums \subseteq retrieved_albums']_vars

(* C19: a failed batch is not fetched again and again in the same state:   *)
(* the loop leaves the state before MaxFailures fetches failed in a row.   *)
C19_FailedBatchMovesOn == failed_batches < MaxFailures


----------------------------------------------------------------------------
(* Properties of the steps of check_rate_limit.                            *)

(* A step in which a check_rate_limit() returned.                          *)
Completes == Len(released') = Len(released) + 1

Last(q) == q[Len(q)]

(* C26: a call of check_rate_limit() on whose entry every window, without *)
(* the entries that have already expired, is under its cap does not wait   *)
(* for a cap: it returns after the base_wait sleep alone.                  *)
C26_EvictBeforeCheck ==
    [][ ( /\ Completes
          /\ Len(Evict(halfmin_timestamps, now, HALFMIN)) < MAX_REQUESTS_PER_30_SEC
          /\ Len(Evict(hourly_timestamps, now, HOUR)) < MAX_REQUESTS_PER_HOUR
          /\ Len(Evict(daily_timestamps, now, DAY)) < MAX_REQUESTS_PER_DAY )
        => Last(released') = now + base_wait ]_vars

(* C27: a completed check_rate_limit() appends one timestamp to all three *)
(* windows, adds 1 to total_requests, and the timestamp is not earlier     *)
(* than the moment the call stopped waiting.                               *)
C27_RecordsTimeOfRecordStep ==
    [][ Completes =>
          /\ Last(halfmin_timestamps') = Last(hourly_timestamps')
          /\ Last(hourly_timestamps') = Last(daily_timestamps')
          /\ total_requests' = total_requests + 1
          /\ Last(halfmin_timestamps') >= Last(released') ]_vars

(* C28: load_request_log in a new process restores total_requests and the *)
(* three timestamp lists, contents and order, as save_request_log wrote    *)
(* them when the process stopped; with no file, or a file that is no JSON, *)
(* it leaves the four at their fresh values and raises nothing.            *)
C28_RequestLogRoundTrip ==
    [][ (proc = "stopped" /\ proc' = "running") =>
          /\ raised' = "none"
          /\ IF request_log.exists /\ request_log.valid
             THEN /\ request_log = SavedLog
                  /\ total_requests' = total_requests
                  /\ halfmin_timestamps' = halfmin_timestamps
                  /\ hourly_timestamps' = hourly_timestamps
                  /\ daily_timestamps' = daily_timestamps
             ELSE /\ total_requests' = 0
                  /\ halfmin_timestamps' = <<>>
                  /\ hourly_timestamps' = <<>>
                  /\ daily_timestamps' = <<>> ]_vars

C28_Witness ==
    /\ proc = "running"
    /\ restartAt # <<>>
    /\ Len(released) = restartAt[1]
    /\ request_log.valid
    /\ total_requests >= 3
    /\ Len(halfmin_timestamps) >= 1
    /\ Len(hourly_timestamps) > Len(halfmin_timestamps)

----------------------------------------------------------------------------
(* Properties of the scans.                                                *)

(* The sample of a kind's scan reached get_batch_info and passed its       *)
(* validation: it holds at most the maximum of its kind (50 tracks, 20     *)
(* albums, 50 artists).                                                    *)
SampleFitsBatch ==
    call.fn = "get_batch_info" =>
        /\ call.n_ids \in 1..KindMaximum(call.item_type)
        /\ ~(raised = "ValueError" /\ attempts = 0)

(* C29: every sample holds at most 50 ids in the Tracks state, 20 in the   *)
(* Albums state, 50 in the Artists state and 10 artist ids in the backfill *)
(* state, and no sample handed to get_batch_info fails its validation.     *)
C29_BoundedSamples ==
    /\ SampleFitsBatch
    /\ call.fn = "get_artist_albums" => call.n_ids <= 10

(* C29, amended: as C29, with at most 50 artist ids in the backfill state. *)
C29_BoundedSamplesOfFifty ==
    /\ SampleFitsBatch
    /\ call.fn = "get_artist_albums" => call.n_ids \in 1..50

C29_Witness ==
    /\ crawl_pc = "backfill"
    /\ Len(Scan(Unflagged, MaxQueue)) = MaxQueue
    /\ call.fn = "get_artist_albums"
    /\ call.n_ids = BACKFILL_SCAN_LIMIT
    /\ pc = "done"
    /\ result = "items"

(* C30: the backfill sets an artist's retrieved_albums only when the       *)
(* get_artist_albums of that artist collected every page; after a fetch    *)
(* that failed or was cut short the artist is still unflagged.             *)
C30_FlagOnlyAfterFullFetch ==
    [][ \A artist_id \in retrieved_albums' \ retrieved_albums :
            /\ call'.fn = "get_artist_albums"
            /\ call'.all_ok
            /\ Len(call'.items) = call'.upstream_total ]_vars

----------------------------------------------------------------------------
(* Properties of the crawl loop's transactions and of its start.           *)

(* C31: a step that enters check_rate_limit() and the upstream request     *)
(* starts from a store without uncommitted writes.                         *)
C31_NoTransactionAcrossFetch ==
    [][ upstream_requests' > upstream_requests => store = committed ]_vars

(* C32: nothing is fetched while check_type is not one of tracks, albums,  *)
(* artists (another selector counts as tracks from the start); a kind's    *)
(* loop fetches only for the kind check_type names; and the loop ends      *)
(* without an exception only at the converged exit.                        *)
C32_ResumePoint ==
    [][ /\ (upstream_requests' > upstream_requests /\ crawl_pc \in CrawlKinds \cup {"backfill"})
           => /\ check_type \in CrawlKinds
              /\ crawl_pc \in CrawlKinds => crawl_pc = check_type
        /\ (proc = "running" /\ proc' = "stopped" /\ raised' = "none")
           => crawl_pc' = "converged" ]_vars

----------------------------------------------------------------------------
(* Properties of get_token.                                                *)

(* C33: get_token returns the cached token, without a request, exactly     *)
(* while the token file is younger than 3540 s; otherwise it asks the      *)
(* provider and, when a token is issued, returns that token; without a     *)
(* refresh token it raises FileNotFoundError.                              *)
C33_TokenRefreshThreshold ==
    [][ attempts' = attempts + 1 =>
          LET fresh == tokens.access_exists /\ now - tokens.access_mtime < 3540 * 1000
          IN  /\ fresh => /\ result' = tokens.access_token
                          /\ raised' = "none"
                          /\ upstream_requests' = upstream_requests
              /\ (~fresh /\ ~tokens.refresh_exists) =>
                     /\ raised' = "FileNotFoundError"
                     /\ upstream_requests' = upstream_requests
              /\ (~fresh /\ tokens.refresh_exists) =>
                     /\ upstream_requests' = upstream_requests + 1
                     /\ tokens' # tokens => /\ tokens'.access_mtime = now
                                            /\ result' = tokens'.access_token ]_vars

----------------------------------------------------------------------------
----------------------------------------------------------------------------
(* C35: any two consecutive requests of get_artist_data_batch, within a    *)
(* call and across calls, whatever the requests before them met, are       *)
(* issued at least 1 s apart.                                              *)
C35_OneRequestPerSecond ==
    \A i \in 1..(Len(released) - 1) : released[i + 1] - released[i] >= 1000

(* Two calls, a retry after a failure, and a pair of requests 1.001 s      *)
(* apart.                                                                  *)
C35_Witness ==
    /\ idles = 2
    /\ Len(released) >= 4
    /\ attempts >= 1
    /\ \E i \in 1..(Len(released) - 1) : released[i + 1] - released[i] = 1001

----------------------------------------------------------------------------
(* C36: in every state in which a fetcher may enter check_rate_limit, a    *)
(* state restored from the request log after a downtime and a state with   *)
(* a full window included, each sleep the call computes is non-negative,   *)
(* and the call returns having recorded the request: nothing is raised.    *)
C36_AcquireAlwaysCompletes ==
    [][ (proc = "running" /\ pc \in {"idle", "rested"}) =>
          /\ \A k \in 1..3 : CapSleeps(now)[k] >= 0
          /\ raised' = "none"
          /\ pc' = "acquired" => /\ total_requests' = total_requests + 1
                                  /\ daily_timestamps' # daily_timestamps ]_vars

----------------------------------------------------------------------------
IsSorted(q) == \A i \in 1..(Len(q) - 1) : q[i] <= q[i + 1]

IsSuffix(a, b) ==
    /\ Len(a) <= Len(b)
    /\ a = [i \in 1..Len(a) |-> b[Len(b) - Len(a) + i]]

WithinOfNewest(q, window) == \A i \in 1..Len(q) : q[Len(q)] - q[i] <= window

(* C37: from empty windows on, each of the three windows is in             *)
(* non-decreasing order, the 30-second window is a suffix of the 1-hour    *)
(* window and that one of the 1-day window, no entry of a window is older  *)
(* than the window's length relative to its newest entry, and              *)
(* total_requests is at least the length of the 1-day window.              *)
C37_WindowStructure ==
    /\ IsSorted(daily_timestamps)
    /\ IsSuffix(halfmin_timestamps, hourly_timestamps)
    /\ IsSuffix(hourly_timestamps, daily_timestamps)
    /\ WithinOfNewest(halfmin_timestamps, 30000)
    /\ WithinOfNewest(hourly_timestamps, 3600000)
    /\ WithinOfNewest(daily_timestamps, 86400000)
    /\ total_requests >= Len(daily_timestamps)

(* The three windows differ, and the 1-day window has dropped entries.     *)
C37_Witness ==
    /\ Len(halfmin_timestamps) < Len(hourly_timestamps)
    /\ Len(hourly_timestamps) < Len(daily_timestamps)
    /\ Len(daily_timestamps) < total_requests

----------------------------------------------------------------------------
(* C38: whenever the crawl loop is at work, in the first run or a later    *)
(* one, a dump of the user's saved tracks has been committed before; no    *)
(* run reports convergence on a store that was never seeded.               *)
C38_SeededBeforeLoop ==
    crawl_pc \in {"tracks", "albums", "artists", "backfill", "check", "converged"}
        => \E db \in boundaries : db # EmptyStore

----------------------------------------------------------------------------
(* C39: whatever its attempts meet, get_genre returns a list with at least *)
(* one genre name, the top tag or "unknown", and never None.               *)
C39_GetGenreTotal ==
    call.fn = "fetch_genres_parallel" =>
        \A i \in 1..Len(call.items) :
            /\ ~call.items[i].none
            /\ call.items[i].genres # <<>>

(* C40: the save of a batch does not fail, after it every artist of the    *)
(* batch has an ArtistGenre row, and fewer artists are without a genre     *)
(* than before the batch.                                                  *)
C40_BatchMakesProgress ==
    [][ pc = "save" =>
          /\ raised' = "none"
          /\ LET artist_batch == Scan(WithoutGenre(store), GENRE_SCAN_LIMIT)
             IN  \A i \in 1..Len(artist_batch) : artist_batch[i] \notin WithoutGenre(store')
          /\ Cardinality(WithoutGenre(store')) < Cardinality(WithoutGenre(store)) ]_vars

====
